---------------------------- MODULE Spec2Model ----------------------------
(***************************************************************************)
(* The signaling coordinator of file2file (the WebSocket room registry):  *)
(* rooms keyed by share id, each with an optional sender and an optional   *)
(* receiver socket; the message, close and error handlers of a socket.     *)
(*                                                                         *)
(* Every handler runs to completion on the single Node.js event loop, so   *)
(* one action is one handler invocation.  The variable out is the list of  *)
(* safeSend calls made by the handler that ran last (with, for each,       *)
(* whether the destination was OPEN, i.e. whether ws.send was called), and *)
(* event is the event that handler was invoked for.  A run handles at most *)
(* MaxEvents events, from MaxConn sockets, about NumShareIds share ids.    *)
(*                                                                         *)
(* The second part is one transfer between the two browser tabs over the   *)
(* data channel (SenderView and ReceiverView of the frontend), with its    *)
(* own specifications TransferSpec, FairTransferSpec and FairSenderSpec;   *)
(* there one action is one task of a tab's event loop, a render or an      *)
(* effect pass of React included.  OutcomeSpec adds the events of the      *)
(* tabs' signaling sockets to the transfer of a short file.                *)
(***************************************************************************)
EXTENDS Integers, Sequences, FiniteSets, TLC

\* ------------------------------------------------------------- bounds
MaxConn == 3
NumShareIds == 2
NumPayloads == 2
\* the number of events the coordinator handles in a run
MaxEvents == 4

Conns == 1..MaxConn
ShareIds == 1..NumShareIds
Payloads == 1..NumPayloads

\* an empty slot / an unset field (undefined)
NoConn == 0
\* a falsy share id: the empty string, or a message without the field
EmptyId == 0
\* the payload field of a message that carries none
NoPayload == 0

VARIABLES
  rooms,       \* Map<string, Room>: a function from the share ids that have a room
  wsRole,      \* ws.role of each socket: "none" (undefined), "sender", "receiver"
  wsShareId,   \* ws.shareId of each socket: EmptyId (undefined) or a share id
  readyState,  \* ws.readyState of each socket: "OPEN", "CLOSING", "CLOSED"
  inbound,     \* the sockets that still emit 'message' and 'error' events
  event,       \* the event the last handler ran for
  out,         \* the safeSend calls of the last handler, in order
  handled,     \* the number of events handled so far
  named,       \* how many sockets, share ids and payloads have appeared so far
  running      \* the coordinator process is alive (no handler has thrown)

\* ------------------------------------------------------------- the browser peers
\* The transfer sessions of the two browser tabs (SenderView, ReceiverView)
\* over one RTCDataChannel.  Sizes are in bytes of a scaled-down world: the
\* source's 256 KiB / 8 MiB / 2 MiB become the small numbers below, which keep
\* their order (a frame is no larger than the high-water mark, low < high).
MaxFileSize == 5
\* the largest file of the runs that are checked for liveness (the waits of the
\* sender are the same whatever the number of chunks before them)
MaxFairFileSize == 2
\* the largest file of the runs with the events of the signaling sockets (the
\* outcome of a session and what follows it are the same whatever the chunks)
MaxOutcomeFileSize == 1
DATA_CHANNEL_CHUNK_SIZE == 2
DATA_CHANNEL_HIGH_WATER == 3
DATA_CHANNEL_LOW_WATER == 1
\* what a JSON text frame (metadata, complete, complete-ack) adds to bufferedAmount
TextFrameSize == 1

VARIABLES
  file,         \* the sender's File: its bytes in order
  channel,      \* every frame the sender has passed to channel.send, in order
  transmitted,  \* how many of them have left the sender's buffer
  delivered,    \* how many of them the receiver's onmessage has been called for
  senderReady,  \* channel.readyState in the sender's tab
  receiverReady,\* channel.readyState in the receiver's tab
  senderView,   \* the sender's session: pc, offset, ackPromise, status, statusRef, ...
  acks,         \* complete-ack frames: sent by the receiver, flushed, seen by the sender
  receiverView, \* the receiver's refs and flags
  receiverState,\* the receiver's React state: the values last passed to the setters
  rendered,     \* the receiver's React state as of its last render
  interrupted,  \* the receiver has been shown a channel close or a peer-disconnected
  pressure      \* bufferedAmount against the marks since the last chunk that left it
                \* above the high-water mark: "none", "high", "relieved"

coordVars == <<rooms, wsRole, wsShareId, readyState, inbound, event, out, handled, named,
               running>>
peerVars == <<file, channel, transmitted, delivered, senderReady, receiverReady,
              senderView, acks, receiverView, receiverState, rendered, interrupted,
              pressure>>

vars == <<rooms, wsRole, wsShareId, readyState, inbound, event, out, handled, named,
          running, file, channel, transmitted, delivered, senderReady, receiverReady,
          senderView, acks, receiverView, receiverState, rendered, interrupted,
          pressure>>

\* ------------------------------------------------------------- data
EmptyRoom == [sender |-> NoConn, receiver |-> NoConn]

HasRoom(shareId) == shareId \in DOMAIN rooms

\* rooms.set(shareId, room)
RoomsSet(shareId, room) ==
  [id \in (DOMAIN rooms) \cup {shareId} |-> IF id = shareId THEN room ELSE rooms[id]]

\* rooms.delete(shareId)
RoomsDelete(shareId) ==
  [id \in (DOMAIN rooms) \ {shareId} |-> rooms[id]]

\* the messages the coordinator sends
ErrorMsg(text) == [type |-> "error", message |-> text]
Notice(type, shareId) == [type |-> type, shareId |-> shareId]
PeerDisconnected(role, shareId) ==
  [type |-> "peer-disconnected", role |-> role, shareId |-> shareId]
\* The mutant: the relayed message is rebuilt without its sdp / candidate.
SignalWithoutPayload(type, shareId, payload) ==
  [type |-> type, shareId |-> shareId, payload |-> NoPayload]

Signal(type, shareId, payload) ==
  [type |-> type, shareId |-> shareId, payload |-> payload]
NotConnectedText(targetRole) ==
  IF targetRole = "sender" THEN "Target peer (sender) is not connected"
  ELSE "Target peer (receiver) is not connected"

Event(op, ws, shareId, payload) ==
  [op |-> op, conn |-> ws, shareId |-> shareId, payload |-> payload]

\* ------------------------------------------------------------- safeSend
\* safeSend(ws, data) appended to the handler's log: nothing for an undefined
\* socket; otherwise the call, marked open when ws.send is reached.
safeSend(rs, log, ws, data) ==
  IF ws = NoConn THEN log
  ELSE Append(log, [to |-> ws, data |-> data, open |-> (rs[ws] = "OPEN")])

\* ws.close() of the ws library: an OPEN socket starts closing, any other is left.
SocketClose(rs, ws) ==
  IF rs[ws] = "OPEN" THEN [rs EXCEPT ![ws] = "CLOSING"] ELSE rs

\* ------------------------------------------------------------- peer data
\* A File of the given size.  The sessions never look at a byte (they slice,
\* send, push and concatenate), so the byte at offset i is given the name i + 1:
\* a byte that is lost, repeated or out of place shows.
FileOfSize(size) == [i \in 1..size |-> i]

\* A frame on the channel: the metadata text frame (size: the declared size),
\* a binary frame (data: its bytes), the complete text frame.
Frame(type, size, data) == [type |-> type, size |-> size, data |-> data]
MetadataFrame(f) == Frame("metadata", Len(f), << >>)
ChunkFrame(data) == Frame("chunk", Len(data), data)
CompleteFrame == Frame("complete", 0, << >>)

\* what the frame adds to the sender's channel.bufferedAmount
FrameBytes(frame) == IF frame.type = "chunk" THEN Len(frame.data) ELSE TextFrameSize

\* the bytes of the frames from..Len(frames) of a frame sequence
RECURSIVE BytesFrom(_, _)
BytesFrom(frames, from) ==
  IF from > Len(frames) THEN 0
  ELSE FrameBytes(frames[from]) + BytesFrom(frames, from + 1)

\* channel.bufferedAmount in the sender's tab when it has sent frames and the
\* transport has taken the first sentOut of them
BufferedAmount(frames, sentOut) == BytesFrom(frames, sentOut + 1)

\* The mutant: the slice runs to the end of the file.
SliceToEnd(f, offset) == SubSeq(f, offset + 1, Len(f))

\* file.slice(offset, offset + DATA_CHANNEL_CHUNK_SIZE)
Slice(f, offset) ==
  SubSeq(f, offset + 1,
         IF offset + DATA_CHANNEL_CHUNK_SIZE < Len(f)
         THEN offset + DATA_CHANNEL_CHUNK_SIZE ELSE Len(f))

\* metadataRef.current === null
NoMetadata == -1
\* no updater of setBytesReceived is waiting for the next render
NoUpdate == -1
\* downloadUrl: null, or the object URL of a Blob
NoUrl == << >>
ObjectUrl(blob) == <<blob>>

\* The two tabs when the data channel has been negotiated: the sender has
\* created it and set its handlers (startPeerConnection), the receiver has got
\* it (ondatachannel, setupDataChannel) after answering the offer.
Mounted(f) ==
  /\ file = f
  /\ channel = << >>
  /\ transmitted = 0
  /\ delivered = 0
  /\ senderReady = "connecting"
  /\ receiverReady = "connecting"
  /\ senderView = [pc |-> "start", offset |-> 0, ackPromise |-> "none",
               status |-> "waiting", statusRef |-> "waiting",
               socket |-> "open", cancels |-> 0, cleaned |-> FALSE,
               closeTimer |-> FALSE]
  /\ acks = [sent |-> 0, flushed |-> 0, seen |-> 0]
  /\ receiverView = [chunksRef |-> << >>, metadataRef |-> NoMetadata,
                 bytesReceivedRef |-> 0, statusRef |-> "establishing",
                 lanes |-> FALSE, effects |-> {}, updater |-> NoUpdate,
                 cleaned |-> FALSE, flushing |-> 0, socket |-> "open",
                 notified |-> FALSE]
  /\ receiverState = [metadata |-> NoMetadata, bytesReceived |-> 0,
                      status |-> "establishing", downloadUrl |-> NoUrl]
  /\ rendered = [metadata |-> NoMetadata, bytesReceived |-> 0,
                 status |-> "establishing", downloadUrl |-> NoUrl]
  /\ interrupted = FALSE
  /\ pressure = "none"

\* ------------------------------------------------------------- Init
\* rooms = new Map(), and sockets that have connected
RegistryInit ==
  /\ rooms = [id \in {} |-> EmptyRoom]
  /\ wsRole = [c \in Conns |-> "none"]
  /\ wsShareId = [c \in Conns |-> EmptyId]
  /\ readyState = [c \in Conns |-> "OPEN"]
  /\ inbound = Conns
  /\ event = Event("connect", NoConn, EmptyId, NoPayload)
  /\ out = << >>
  /\ handled = 0
  /\ named = [conns |-> 0, ids |-> 0, payloads |-> 0]
  /\ running = TRUE

\* The coordinator alone: no transfer goes on beside it.
Init == RegistryInit /\ Mounted(<< >>)

\* ------------------------------------------------------------- handlers
\* What a handler leaves behind: the registry, the tags, the ready states and
\* the log of its safeSend calls.
Finish(newRooms, newRole, newShareId, newReady, log) ==
  /\ rooms' = newRooms
  /\ wsRole' = newRole
  /\ wsShareId' = newShareId
  /\ readyState' = newReady
  /\ out' = log

\* A handler that only replies.
ReplyOnly(log) == Finish(rooms, wsRole, wsShareId, readyState, log)

\* The mutant: create without the test for an occupied sender slot.
createShareNoOccupiedCheck(ws, shareId) ==
  IF shareId = EmptyId
  THEN ReplyOnly(safeSend(readyState, << >>, ws, ErrorMsg("shareId is required for create")))
  ELSE
    LET room == IF HasRoom(shareId) THEN rooms[shareId] ELSE EmptyRoom
        nextRoom == [room EXCEPT !.sender = ws]
        log1 == safeSend(readyState, << >>, ws, Notice("created", shareId))
        log2 == IF nextRoom.receiver # NoConn
                THEN safeSend(readyState, log1, ws, Notice("receiver-joined", shareId))
                ELSE log1
    IN Finish(RoomsSet(shareId, nextRoom),
              [wsRole EXCEPT ![ws] = "sender"],
              [wsShareId EXCEPT ![ws] = shareId],
              readyState, log2)

\* The mutant: create tags the requester before it looks at the room.
createShareTagsFirst(ws, shareId) ==
  IF shareId = EmptyId
  THEN ReplyOnly(safeSend(readyState, << >>, ws, ErrorMsg("shareId is required for create")))
  ELSE IF HasRoom(shareId) /\ rooms[shareId].sender # NoConn
  THEN Finish(rooms,
              [wsRole EXCEPT ![ws] = "sender"],
              [wsShareId EXCEPT ![ws] = shareId],
              readyState,
              safeSend(readyState, << >>, ws,
                       ErrorMsg("Share already exists. Pick a new link.")))
  ELSE
    LET room == IF HasRoom(shareId) THEN rooms[shareId] ELSE EmptyRoom
        nextRoom == [room EXCEPT !.sender = ws]
        log1 == safeSend(readyState, << >>, ws, Notice("created", shareId))
        log2 == IF nextRoom.receiver # NoConn
                THEN safeSend(readyState, log1, ws, Notice("receiver-joined", shareId))
                ELSE log1
    IN Finish(RoomsSet(shareId, nextRoom),
              [wsRole EXCEPT ![ws] = "sender"],
              [wsShareId EXCEPT ![ws] = shareId],
              readyState, log2)

\* The mutant: create does not look for a receiver that is waiting in the room.
createShareSkipsReceiverNotice(ws, shareId) ==
  IF shareId = EmptyId
  THEN ReplyOnly(safeSend(readyState, << >>, ws, ErrorMsg("shareId is required for create")))
  ELSE IF HasRoom(shareId) /\ rooms[shareId].sender # NoConn
  THEN ReplyOnly(safeSend(readyState, << >>, ws,
                          ErrorMsg("Share already exists. Pick a new link.")))
  ELSE
    LET room == IF HasRoom(shareId) THEN rooms[shareId] ELSE EmptyRoom
        nextRoom == [room EXCEPT !.sender = ws]
        log1 == safeSend(readyState, << >>, ws, Notice("created", shareId))
    IN Finish(RoomsSet(shareId, nextRoom),
              [wsRole EXCEPT ![ws] = "sender"],
              [wsShareId EXCEPT ![ws] = shareId],
              readyState, log1)

createShare(ws, shareId) ==
  IF shareId = EmptyId
  THEN ReplyOnly(safeSend(readyState, << >>, ws, ErrorMsg("shareId is required for create")))
  ELSE IF HasRoom(shareId) /\ rooms[shareId].sender # NoConn
  THEN ReplyOnly(safeSend(readyState, << >>, ws,
                          ErrorMsg("Share already exists. Pick a new link.")))
  ELSE
    LET room == IF HasRoom(shareId) THEN rooms[shareId] ELSE EmptyRoom
        nextRoom == [room EXCEPT !.sender = ws]
        log1 == safeSend(readyState, << >>, ws, Notice("created", shareId))
        log2 == IF nextRoom.receiver # NoConn
                THEN safeSend(readyState, log1, ws, Notice("receiver-joined", shareId))
                ELSE log1
    IN Finish(RoomsSet(shareId, nextRoom),
              [wsRole EXCEPT ![ws] = "sender"],
              [wsShareId EXCEPT ![ws] = shareId],
              readyState, log2)

\* The mutant: join tests for the room, not for its sender.
joinShareNoSenderCheck(ws, shareId) ==
  IF shareId = EmptyId
  THEN ReplyOnly(safeSend(readyState, << >>, ws, ErrorMsg("shareId is required for join")))
  ELSE IF ~HasRoom(shareId)
  THEN ReplyOnly(safeSend(readyState, << >>, ws,
                          ErrorMsg("Share not found or sender not connected")))
  ELSE IF rooms[shareId].receiver # NoConn
  THEN ReplyOnly(safeSend(readyState, << >>, ws,
                          ErrorMsg("This share already has a receiver")))
  ELSE
    LET room == [rooms[shareId] EXCEPT !.receiver = ws]
        log1 == safeSend(readyState, << >>, ws, Notice("joined", shareId))
        log2 == safeSend(readyState, log1, room.sender, Notice("receiver-joined", shareId))
        log3 == safeSend(readyState, log2, ws, Notice("sender-ready", shareId))
    IN Finish(RoomsSet(shareId, room),
              [wsRole EXCEPT ![ws] = "receiver"],
              [wsShareId EXCEPT ![ws] = shareId],
              readyState, log3)

\* The mutant: join without the test for an occupied receiver slot.
joinShareNoReceiverCheck(ws, shareId) ==
  IF shareId = EmptyId
  THEN ReplyOnly(safeSend(readyState, << >>, ws, ErrorMsg("shareId is required for join")))
  ELSE IF ~HasRoom(shareId) \/ rooms[shareId].sender = NoConn
  THEN ReplyOnly(safeSend(readyState, << >>, ws,
                          ErrorMsg("Share not found or sender not connected")))
  ELSE
    LET room == [rooms[shareId] EXCEPT !.receiver = ws]
        log1 == safeSend(readyState, << >>, ws, Notice("joined", shareId))
        log2 == safeSend(readyState, log1, room.sender, Notice("receiver-joined", shareId))
        log3 == safeSend(readyState, log2, ws, Notice("sender-ready", shareId))
    IN Finish(RoomsSet(shareId, room),
              [wsRole EXCEPT ![ws] = "receiver"],
              [wsShareId EXCEPT ![ws] = shareId],
              readyState, log3)

\* The mutant: join does not tell the sender that a receiver has joined.
joinShareSkipsSenderNotice(ws, shareId) ==
  IF shareId = EmptyId
  THEN ReplyOnly(safeSend(readyState, << >>, ws, ErrorMsg("shareId is required for join")))
  ELSE IF ~HasRoom(shareId) \/ rooms[shareId].sender = NoConn
  THEN ReplyOnly(safeSend(readyState, << >>, ws,
                          ErrorMsg("Share not found or sender not connected")))
  ELSE IF rooms[shareId].receiver # NoConn
  THEN ReplyOnly(safeSend(readyState, << >>, ws,
                          ErrorMsg("This share already has a receiver")))
  ELSE
    LET room == [rooms[shareId] EXCEPT !.receiver = ws]
        log1 == safeSend(readyState, << >>, ws, Notice("joined", shareId))
        log3 == safeSend(readyState, log1, ws, Notice("sender-ready", shareId))
    IN Finish(RoomsSet(shareId, room),
              [wsRole EXCEPT ![ws] = "receiver"],
              [wsShareId EXCEPT ![ws] = shareId],
              readyState, log3)

joinShare(ws, shareId) ==
  IF shareId = EmptyId
  THEN ReplyOnly(safeSend(readyState, << >>, ws, ErrorMsg("shareId is required for join")))
  ELSE IF ~HasRoom(shareId) \/ rooms[shareId].sender = NoConn
  THEN ReplyOnly(safeSend(readyState, << >>, ws,
                          ErrorMsg("Share not found or sender not connected")))
  ELSE IF rooms[shareId].receiver # NoConn
  THEN ReplyOnly(safeSend(readyState, << >>, ws,
                          ErrorMsg("This share already has a receiver")))
  ELSE
    LET room == [rooms[shareId] EXCEPT !.receiver = ws]
        log1 == safeSend(readyState, << >>, ws, Notice("joined", shareId))
        log2 == safeSend(readyState, log1, room.sender, Notice("receiver-joined", shareId))
        log3 == safeSend(readyState, log2, ws, Notice("sender-ready", shareId))
    IN Finish(RoomsSet(shareId, room),
              [wsRole EXCEPT ![ws] = "receiver"],
              [wsShareId EXCEPT ![ws] = shareId],
              readyState, log3)

forwardToPeer(ws, shareId, targetRole, payload) ==
  IF shareId = EmptyId
  THEN ReplyOnly(safeSend(readyState, << >>, ws,
                          ErrorMsg("shareId is required for signaling messages")))
  ELSE
    LET target == IF ~HasRoom(shareId) THEN NoConn
                  ELSE IF targetRole = "sender" THEN rooms[shareId].sender
                  ELSE IF targetRole = "receiver" THEN rooms[shareId].receiver
                  ELSE NoConn
    IN IF ~HasRoom(shareId) \/ target = NoConn
       THEN ReplyOnly(safeSend(readyState, << >>, ws, ErrorMsg(NotConnectedText(targetRole))))
       ELSE ReplyOnly(safeSend(readyState, << >>, target, payload))

cancelShare(ws, shareId) ==
  IF ~HasRoom(shareId)
  THEN ReplyOnly(<< >>)
  ELSE
    LET room == rooms[shareId]
        log1 == IF room.sender # NoConn /\ room.sender # ws
                THEN safeSend(readyState, << >>, room.sender, Notice("share-cancelled", shareId))
                ELSE << >>
        log2 == IF room.receiver # NoConn /\ room.receiver # ws
                THEN safeSend(readyState, log1, room.receiver, Notice("share-cancelled", shareId))
                ELSE log1
    IN Finish(RoomsDelete(shareId), wsRole, wsShareId, readyState, log2)

\* The mutant: the sender's disconnect removes the room at once, receiver or not.
cleanupPeerRemovesRoom(rs, ws) ==
  LET shareId == wsShareId[ws]
      role == wsRole[ws]
  IN
  IF shareId = EmptyId \/ role = "none"
  THEN Finish(rooms, wsRole, wsShareId, rs, << >>)
  ELSE IF ~HasRoom(shareId)
  THEN Finish(rooms, wsRole, wsShareId, rs, << >>)
  ELSE
    LET room == rooms[shareId]
        asSender == role = "sender" /\ room.sender = ws
        room1 == IF asSender THEN [room EXCEPT !.sender = NoConn] ELSE room
        tellReceiver == asSender /\ room1.receiver # NoConn
        log1 == IF tellReceiver
                THEN safeSend(rs, << >>, room1.receiver, PeerDisconnected("sender", shareId))
                ELSE << >>
        rs1 == IF tellReceiver THEN SocketClose(rs, room1.receiver) ELSE rs
        asReceiver == role = "receiver" /\ room1.receiver = ws
        room2 == IF asReceiver THEN [room1 EXCEPT !.receiver = NoConn] ELSE room1
        log2 == IF asReceiver /\ room2.sender # NoConn
                THEN safeSend(rs1, log1, room2.sender, PeerDisconnected("receiver", shareId))
                ELSE log1
        empty == asSender \/ (room2.sender = NoConn /\ room2.receiver = NoConn)
    IN Finish(IF empty THEN RoomsDelete(shareId) ELSE RoomsSet(shareId, room2),
              wsRole, wsShareId, rs1, log2)

\* The mutant: a room that loses its last occupant is kept.
cleanupPeerKeepsEmptyRoom(rs, ws) ==
  LET shareId == wsShareId[ws]
      role == wsRole[ws]
  IN
  IF shareId = EmptyId \/ role = "none"
  THEN Finish(rooms, wsRole, wsShareId, rs, << >>)
  ELSE IF ~HasRoom(shareId)
  THEN Finish(rooms, wsRole, wsShareId, rs, << >>)
  ELSE
    LET room == rooms[shareId]
        asSender == role = "sender" /\ room.sender = ws
        room1 == IF asSender THEN [room EXCEPT !.sender = NoConn] ELSE room
        tellReceiver == asSender /\ room1.receiver # NoConn
        log1 == IF tellReceiver
                THEN safeSend(rs, << >>, room1.receiver, PeerDisconnected("sender", shareId))
                ELSE << >>
        rs1 == IF tellReceiver THEN SocketClose(rs, room1.receiver) ELSE rs
        asReceiver == role = "receiver" /\ room1.receiver = ws
        room2 == IF asReceiver THEN [room1 EXCEPT !.receiver = NoConn] ELSE room1
        log2 == IF asReceiver /\ room2.sender # NoConn
                THEN safeSend(rs1, log1, room2.sender, PeerDisconnected("receiver", shareId))
                ELSE log1
    IN Finish(RoomsSet(shareId, room2), wsRole, wsShareId, rs1, log2)

\* The mutant: the disconnect clears the slot of the socket's role without
\* testing that the socket is its occupant.
cleanupPeerByRole(rs, ws) ==
  LET shareId == wsShareId[ws]
      role == wsRole[ws]
  IN
  IF shareId = EmptyId \/ role = "none"
  THEN Finish(rooms, wsRole, wsShareId, rs, << >>)
  ELSE IF ~HasRoom(shareId)
  THEN Finish(rooms, wsRole, wsShareId, rs, << >>)
  ELSE
    LET room == rooms[shareId]
        asSender == role = "sender"
        room1 == IF asSender THEN [room EXCEPT !.sender = NoConn] ELSE room
        tellReceiver == asSender /\ room1.receiver # NoConn
        log1 == IF tellReceiver
                THEN safeSend(rs, << >>, room1.receiver, PeerDisconnected("sender", shareId))
                ELSE << >>
        rs1 == IF tellReceiver THEN SocketClose(rs, room1.receiver) ELSE rs
        asReceiver == role = "receiver"
        room2 == IF asReceiver THEN [room1 EXCEPT !.receiver = NoConn] ELSE room1
        log2 == IF asReceiver /\ room2.sender # NoConn
                THEN safeSend(rs1, log1, room2.sender, PeerDisconnected("receiver", shareId))
                ELSE log1
        empty == room2.sender = NoConn /\ room2.receiver = NoConn
    IN Finish(IF empty THEN RoomsDelete(shareId) ELSE RoomsSet(shareId, room2),
              wsRole, wsShareId, rs1, log2)

\* cleanupPeer(ws), run with the ready states rs the socket library has set
\* before it emitted the event.
cleanupPeer(rs, ws) ==
  LET shareId == wsShareId[ws]
      role == wsRole[ws]
  IN
  IF shareId = EmptyId \/ role = "none"
  THEN Finish(rooms, wsRole, wsShareId, rs, << >>)
  ELSE IF ~HasRoom(shareId)
  THEN Finish(rooms, wsRole, wsShareId, rs, << >>)
  ELSE
    LET room == rooms[shareId]
        asSender == role = "sender" /\ room.sender = ws
        room1 == IF asSender THEN [room EXCEPT !.sender = NoConn] ELSE room
        tellReceiver == asSender /\ room1.receiver # NoConn
        log1 == IF tellReceiver
                THEN safeSend(rs, << >>, room1.receiver, PeerDisconnected("sender", shareId))
                ELSE << >>
        rs1 == IF tellReceiver THEN SocketClose(rs, room1.receiver) ELSE rs
        asReceiver == role = "receiver" /\ room1.receiver = ws
        room2 == IF asReceiver THEN [room1 EXCEPT !.receiver = NoConn] ELSE room1
        log2 == IF asReceiver /\ room2.sender # NoConn
                THEN safeSend(rs1, log1, room2.sender, PeerDisconnected("receiver", shareId))
                ELSE log1
        empty == room2.sender = NoConn /\ room2.receiver = NoConn
    IN Finish(IF empty THEN RoomsDelete(shareId) ELSE RoomsSet(shareId, room2),
              wsRole, wsShareId, rs1, log2)

\* handleSignal: the sender's own role picks the target of an ice-candidate.
IceTarget(ws) == IF wsRole[ws] = "sender" THEN "receiver" ELSE "sender"

\* ------------------------------------------------------------- events
\* The later of two names.
Later(a, b) == IF a > b THEN a ELSE b

\* One more event is taken off the event loop.  The coordinator compares
\* sockets, share ids and payloads only for identity (===, the Map key) and
\* never orders or inspects them, so a run and its renamings behave alike:
\* sockets, share ids and payloads are numbered in the order of their first
\* appearance, and an event may bring at most the next unused name of each.
Taken(ws, shareId, payload) ==
  /\ running
  /\ handled < MaxEvents
  /\ handled' = handled + 1
  /\ ws <= named.conns + 1
  /\ shareId <= named.ids + 1
  /\ payload <= named.payloads + 1
  /\ named' = [conns |-> Later(named.conns, ws),
               ids |-> Later(named.ids, shareId),
               payloads |-> Later(named.payloads, payload)]
  /\ UNCHANGED peerVars

\* The event is handled by a listener that returns: the process lives on.
Dispatch(ws, shareId, payload) ==
  /\ Taken(ws, shareId, payload)
  /\ UNCHANGED running

\* ws.on('message'): a parsed message of each type
OnCreate(ws, shareId) ==
  /\ Dispatch(ws, shareId, NoPayload)
  /\ ws \in inbound
  /\ event' = Event("create", ws, shareId, NoPayload)
  /\ createShare(ws, shareId)
  /\ UNCHANGED inbound

OnJoin(ws, shareId) ==
  /\ Dispatch(ws, shareId, NoPayload)
  /\ ws \in inbound
  /\ event' = Event("join", ws, shareId, NoPayload)
  /\ joinShare(ws, shareId)
  /\ UNCHANGED inbound

OnOffer(ws, shareId, sdp) ==
  /\ Dispatch(ws, shareId, sdp)
  /\ ws \in inbound
  /\ event' = Event("offer", ws, shareId, sdp)
  /\ forwardToPeer(ws, shareId, "receiver", Signal("offer", shareId, sdp))
  /\ UNCHANGED inbound

OnAnswer(ws, shareId, sdp) ==
  /\ Dispatch(ws, shareId, sdp)
  /\ ws \in inbound
  /\ event' = Event("answer", ws, shareId, sdp)
  /\ forwardToPeer(ws, shareId, "sender", Signal("answer", shareId, sdp))
  /\ UNCHANGED inbound

OnIceCandidate(ws, shareId, candidate) ==
  /\ Dispatch(ws, shareId, candidate)
  /\ ws \in inbound
  /\ event' = Event("ice-candidate", ws, shareId, candidate)
  /\ forwardToPeer(ws, shareId, IceTarget(ws), Signal("ice-candidate", shareId, candidate))
  /\ UNCHANGED inbound

OnCancel(ws, shareId) ==
  /\ Dispatch(ws, shareId, NoPayload)
  /\ ws \in inbound
  /\ event' = Event("cancel", ws, shareId, NoPayload)
  /\ cancelShare(ws, shareId)
  /\ UNCHANGED inbound

\* ws.on('message'): a payload JSON.parse rejects
OnInvalidJson(ws) ==
  /\ Dispatch(ws, EmptyId, NoPayload)
  /\ ws \in inbound
  /\ event' = Event("invalid-json", ws, EmptyId, NoPayload)
  /\ ReplyOnly(safeSend(readyState, << >>, ws, ErrorMsg("Invalid JSON payload")))
  /\ UNCHANGED inbound

\* ws.on('message'): an object whose type is none of the six
OnUnsupported(ws) ==
  /\ Dispatch(ws, EmptyId, NoPayload)
  /\ ws \in inbound
  /\ event' = Event("unsupported", ws, EmptyId, NoPayload)
  /\ ReplyOnly(safeSend(readyState, << >>, ws, ErrorMsg("Unsupported message type")))
  /\ UNCHANGED inbound

\* ws.on('message'): the JSON text null.  JSON.parse returns null and
\* handleSignal throws a TypeError on message.type before it sends anything;
\* neither the listener nor the process catches it, so the process ends: no
\* reply is made and no later event is handled.
OnNullMessage(ws) ==
  /\ Taken(ws, EmptyId, NoPayload)
  /\ ws \in inbound
  /\ event' = Event("null-message", ws, EmptyId, NoPayload)
  /\ ReplyOnly(<< >>)
  /\ running' = FALSE
  /\ UNCHANGED inbound

\* ws.on('error'): the library has set the socket CLOSING and stopped reading it
OnError(ws) ==
  /\ Dispatch(ws, EmptyId, NoPayload)
  /\ ws \in inbound
  /\ event' = Event("error", ws, EmptyId, NoPayload)
  /\ inbound' = inbound \ {ws}
  /\ cleanupPeer([readyState EXCEPT ![ws] = "CLOSING"], ws)

\* ws.on('close'): the library has set the socket CLOSED
OnClose(ws) ==
  /\ Dispatch(ws, EmptyId, NoPayload)
  /\ readyState[ws] # "CLOSED"
  /\ event' = Event("close", ws, EmptyId, NoPayload)
  /\ inbound' = inbound \ {ws}
  /\ cleanupPeer([readyState EXCEPT ![ws] = "CLOSED"], ws)

\* ------------------------------------------------------------- vocabulary
\* One safeSend call as the log records it.
Call(ws, data, open) == [to |-> ws, data |-> data, open |-> open]

IsOpen(ws) == readyState[ws] = "OPEN"

\* The step handles message op from ws for shareId.
Handles(op, ws, shareId) ==
  /\ event'.op = op
  /\ event'.conn = ws
  /\ event'.shareId = shareId

\* The step processes a disconnect (the close or the error event) of ws.
Disconnects(ws) ==
  /\ event'.op \in {"close", "error"}
  /\ event'.conn = ws

\* ... and it is the first one of ws: neither event has fired before.
FirstDisconnects(ws) == Disconnects(ws) /\ ws \in inbound

\* The data of the calls a log makes to ws, in order.
DataTo(log, ws) ==
  LET ToWs(m) == m.to = ws
      calls == SelectSeq(log, ToWs)
  IN [i \in 1..Len(calls) |-> calls[i].data]

TagsUnchanged == wsRole' = wsRole /\ wsShareId' = wsShareId

\* ------------------------------------------------------------- C1
\* C1: every slot of every room holds no connection or exactly one, and a create
\* or join step never changes a slot that is occupied (a successful create or
\* join fills an empty slot only).
SlotsHoldOneConnection ==
  \A id \in DOMAIN rooms :
    /\ id \in ShareIds
    /\ rooms[id].sender \in Conns \cup {NoConn}
    /\ rooms[id].receiver \in Conns \cup {NoConn}

CreateJoinKeepOccupants ==
  \A id \in DOMAIN rooms :
    event'.op \in {"create", "join"} =>
      /\ rooms[id].sender # NoConn =>
           id \in DOMAIN rooms' /\ rooms'[id].sender = rooms[id].sender
      /\ rooms[id].receiver # NoConn =>
           id \in DOMAIN rooms' /\ rooms'[id].receiver = rooms[id].receiver

C1_OneOccupantNeverReplaced ==
  [][SlotsHoldOneConnection' /\ CreateJoinKeepOccupants]_vars

\* A full room (two different connections) has just refused a create from a
\* third connection.
C1_Witness ==
  /\ event.op = "create"
  /\ HasRoom(event.shareId)
  /\ rooms[event.shareId].sender \in Conns \ {event.conn}
  /\ rooms[event.shareId].receiver \in Conns \ {event.conn, rooms[event.shareId].sender}
  /\ out = <<Call(event.conn, ErrorMsg("Share already exists. Pick a new link."), TRUE)>>


\* ------------------------------------------------------------- C2
\* ws is tagged sender of room shareId and holds its sender slot, and the
\* receiver slot is occupied.
SenderWithReceiver(ws, shareId) ==
  /\ wsRole[ws] = "sender"
  /\ wsShareId[ws] = shareId
  /\ HasRoom(shareId)
  /\ rooms[shareId].sender = ws
  /\ rooms[shareId].receiver # NoConn

SenderDisconnectKeepsRoom ==
  \A ws \in Conns, shareId \in ShareIds :
    (FirstDisconnects(ws) /\ SenderWithReceiver(ws, shareId)) =>
      LET receiver == rooms[shareId].receiver
      IN /\ out' = <<Call(receiver, PeerDisconnected("sender", shareId),
                          IsOpen(receiver) /\ receiver # ws)>>
         /\ readyState'[receiver] # "OPEN"
         /\ shareId \in DOMAIN rooms'
         /\ rooms'[shareId] = [sender |-> NoConn, receiver |-> receiver]

SecondDisconnectIsSilent ==
  \A ws \in Conns :
    (Disconnects(ws) /\ ws \notin inbound) =>
      /\ out' = << >>
      /\ rooms' = rooms
      /\ readyState' = [readyState EXCEPT ![ws] = "CLOSED"]

LoneReceiverDisconnectRemovesRoom ==
  \A ws \in Conns, shareId \in ShareIds :
    (/\ FirstDisconnects(ws)
     /\ wsRole[ws] = "receiver" /\ wsShareId[ws] = shareId
     /\ HasRoom(shareId)
     /\ rooms[shareId] = [sender |-> NoConn, receiver |-> ws]) =>
      shareId \notin DOMAIN rooms'

C3_Original ==
  [][\A ws \in Conns, shareId \in ShareIds :
       /\ (/\ FirstDisconnects(ws)
           /\ HasRoom(shareId)
           /\ rooms[shareId].receiver = ws
           /\ rooms[shareId].sender \in Conns \ {ws}) =>
            LET sender == rooms[shareId].sender
            IN /\ DataTo(out', sender) = <<PeerDisconnected("receiver", shareId)>>
               /\ readyState'[sender] = readyState[sender]
               /\ shareId \in DOMAIN rooms'
               /\ rooms'[shareId] = [sender |-> sender, receiver |-> NoConn]
       /\ (Disconnects(ws) /\ ws \notin inbound) => out' = << >>]_vars

\* ------------------------------------------------------------- C4
\* C4: a create for a share id whose sender slot holds another connection makes
\* exactly one safeSend call, the error "Share already exists" to the requester
\* (transmitted when the requester is OPEN), and changes no room (so neither
\* slot of this one), no tag and no connection.
C4_CreateOnOccupied ==
  [][\A ws \in Conns, shareId \in ShareIds :
       (/\ Handles("create", ws, shareId)
        /\ HasRoom(shareId)
        /\ rooms[shareId].sender \in Conns \ {ws}) =>
         /\ out' = <<Call(ws, ErrorMsg("Share already exists. Pick a new link."), IsOpen(ws))>>
         /\ rooms' = rooms
         /\ TagsUnchanged
         /\ readyState' = readyState]_vars

\* An untagged connection has been refused the create of a room that has a
\* sender and a receiver.
C4_Witness ==
  /\ event.op = "create"
  /\ wsRole[event.conn] = "none"
  /\ HasRoom(event.shareId)
  /\ rooms[event.shareId].sender \in Conns \ {event.conn}
  /\ rooms[event.shareId].receiver \in Conns \ {event.conn}
  /\ wsRole[rooms[event.shareId].sender] = "sender"
  /\ out = <<Call(event.conn, ErrorMsg("Share already exists. Pick a new link."), TRUE)>>

\* ------------------------------------------------------------- C5
\* C5: a join for a share id that has no room, or whose room has no sender,
\* makes exactly one safeSend call, the error "Share not found or sender not
\* connected" to the requester (transmitted when the requester is OPEN), and
\* changes no room (none is created), no tag and no connection.
C5_JoinWithoutSender ==
  [][\A ws \in Conns, shareId \in ShareIds :
       (/\ Handles("join", ws, shareId)
        /\ (~HasRoom(shareId) \/ rooms[shareId].sender = NoConn)) =>
         /\ out' = <<Call(ws, ErrorMsg("Share not found or sender not connected"), IsOpen(ws))>>
         /\ rooms' = rooms
         /\ TagsUnchanged
         /\ readyState' = readyState]_vars

\* An untagged connection has been refused the join of a room that exists but
\* has lost its sender (it holds only a receiver).
C5_Witness ==
  /\ event.op = "join"
  /\ wsRole[event.conn] = "none"
  /\ HasRoom(event.shareId)
  /\ rooms[event.shareId].sender = NoConn
  /\ rooms[event.shareId].receiver \in Conns \ {event.conn}
  /\ out = <<Call(event.conn, ErrorMsg("Share not found or sender not connected"), TRUE)>>

\* ------------------------------------------------------------- C6
\* C6 as stated: a join for a share id whose room has a receiver (another
\* connection) is answered with the error "This share already has a receiver"
\* and changes no room and no tag.
C6_Original ==
  [][\A ws \in Conns, shareId \in ShareIds :
       (/\ Handles("join", ws, shareId)
        /\ HasRoom(shareId)
        /\ rooms[shareId].receiver \in Conns \ {ws}) =>
         /\ DataTo(out', ws) = <<ErrorMsg("This share already has a receiver")>>
         /\ rooms' = rooms
         /\ TagsUnchanged]_vars

\* C6 (amended): a join for a share id whose room has a sender and a receiver
\* makes exactly one safeSend call, the error "This share already has a
\* receiver" to the requester (transmitted when the requester is OPEN), so that
\* neither occupant is notified, and changes no room, no tag and no connection;
\* when the room has a receiver but no sender the one call is the error "Share
\* not found or sender not connected" instead.
C6_JoinOnFullRoom ==
  [][\A ws \in Conns, shareId \in ShareIds :
       (/\ Handles("join", ws, shareId)
        /\ HasRoom(shareId)
        /\ rooms[shareId].receiver # NoConn) =>
         /\ out' = <<Call(ws,
                          IF rooms[shareId].sender # NoConn
                          THEN ErrorMsg("This share already has a receiver")
                          ELSE ErrorMsg("Share not found or sender not connected"),
                          IsOpen(ws))>>
         /\ rooms' = rooms
         /\ TagsUnchanged
         /\ readyState' = readyState]_vars

\* A third, untagged connection has been refused the join of a room that holds
\* a sender and a receiver.
C6_Witness ==
  /\ event.op = "join"
  /\ wsRole[event.conn] = "none"
  /\ HasRoom(event.shareId)
  /\ rooms[event.shareId].sender \in Conns \ {event.conn}
  /\ rooms[event.shareId].receiver \in Conns \ {event.conn, rooms[event.shareId].sender}
  /\ out = <<Call(event.conn, ErrorMsg("This share already has a receiver"), TRUE)>>

\* ------------------------------------------------------------- C7
\* C7: every room of the registry has its sender slot or its receiver slot
\* occupied: no room is kept with both slots empty.
C7_NoEmptyRoom ==
  \A id \in DOMAIN rooms :
    rooms[id].sender # NoConn \/ rooms[id].receiver # NoConn

\* The receiver, the last occupant of its room after the sender left, has
\* disconnected and the room is gone.
C7_Witness ==
  /\ event.op \in {"close", "error"}
  /\ wsRole[event.conn] = "receiver"
  /\ wsShareId[event.conn] \in ShareIds
  /\ ~HasRoom(wsShareId[event.conn])
  /\ handled = 4
  /\ \E c \in Conns \ {event.conn} :
       /\ wsRole[c] = "sender" /\ wsShareId[c] = wsShareId[event.conn]
       /\ readyState[c] = "CLOSED"
  /\ \A c \in Conns : readyState[c] = "OPEN" => wsRole[c] = "none"

\* ------------------------------------------------------------- C8
\* C8: a join for a room that has a sender and no receiver puts the joining
\* connection in the receiver slot (the sender slot and the other rooms are
\* left), tags it (receiver, shareId), and makes exactly three safeSend calls:
\* joined to the joining connection, receiver-joined to the sender (once),
\* sender-ready to the joining connection, in that order, each transmitted when
\* its destination is OPEN.
C8_SuccessfulJoin ==
  [][\A ws \in Conns, shareId \in ShareIds :
       (/\ Handles("join", ws, shareId)
        /\ HasRoom(shareId)
        /\ rooms[shareId].sender # NoConn
        /\ rooms[shareId].receiver = NoConn) =>
         LET sender == rooms[shareId].sender
         IN /\ rooms' = [rooms EXCEPT ![shareId] = [sender |-> sender, receiver |-> ws]]
            /\ wsRole' = [wsRole EXCEPT ![ws] = "receiver"]
            /\ wsShareId' = [wsShareId EXCEPT ![ws] = shareId]
            /\ out' = << Call(ws, [type |-> "joined", shareId |-> shareId], IsOpen(ws)),
                         Call(sender, [type |-> "receiver-joined", shareId |-> shareId],
                              IsOpen(sender)),
                         Call(ws, [type |-> "sender-ready", shareId |-> shareId], IsOpen(ws)) >>
            /\ readyState' = readyState]_vars

\* A connection has joined the room of another, open connection: the three
\* messages have been transmitted.
C8_Witness ==
  /\ event.op = "join"
  /\ HasRoom(event.shareId)
  /\ rooms[event.shareId].receiver = event.conn
  /\ rooms[event.shareId].sender \in Conns \ {event.conn}
  /\ wsRole[event.conn] = "receiver"
  /\ wsShareId[event.conn] = event.shareId
  /\ Len(out) = 3
  /\ \A i \in 1..3 : out[i].open
  /\ DataTo(out, rooms[event.shareId].sender) =
       <<[type |-> "receiver-joined", shareId |-> event.shareId]>>

\* ------------------------------------------------------------- C9
\* The occupant of a slot of the room of shareId, NoConn when there is none.
Occupant(shareId, slot) ==
  IF ~HasRoom(shareId) THEN NoConn
  ELSE IF slot = "sender" THEN rooms[shareId].sender
  ELSE rooms[shareId].receiver

\* What a relay of type towards slot must do: one safeSend call, the message
\* with its payload to the occupant of the slot, or, without occupant, the
\* error "Target peer (slot) is not connected" to the originator; no room, tag
\* or connection changes.
RelayedTo(type, slot) ==
  \A ws \in Conns, shareId \in ShareIds, payload \in Payloads :
    (Handles(type, ws, shareId) /\ event'.payload = payload) =>
      LET target == Occupant(shareId, slot)
      IN /\ out' = IF target # NoConn
                   THEN <<Call(target,
                               [type |-> type, shareId |-> shareId, payload |-> payload],
                               IsOpen(target))>>
                   ELSE <<Call(ws,
                               [type |-> "error",
                                message |-> IF slot = "sender"
                                            THEN "Target peer (sender) is not connected"
                                            ELSE "Target peer (receiver) is not connected"],
                               IsOpen(ws))>>
         /\ rooms' = rooms
         /\ TagsUnchanged
         /\ readyState' = readyState

\* C9: an offer is relayed, payload unchanged, to the receiver of the named room
\* and to nobody else, an answer to its sender; when the room does not exist or
\* the slot is empty nothing is relayed and the originator is told that the
\* target is not connected; no room and no tag changes in either case.
C9_OfferAnswerRelay ==
  [][RelayedTo("offer", "receiver") /\ RelayedTo("answer", "sender")]_vars

\* An offer carrying the last payload has been relayed to the open receiver of
\* the room, a connection other than the originator.
C9_Witness ==
  /\ event.op = "offer"
  /\ event.payload = NumPayloads
  /\ HasRoom(event.shareId)
  /\ rooms[event.shareId].receiver \in Conns \ {event.conn}
  /\ out = <<Call(rooms[event.shareId].receiver,
                  [type |-> "offer", shareId |-> event.shareId, payload |-> NumPayloads],
                  TRUE)>>

\* ------------------------------------------------------------- C10
\* C10 as stated: an ice-candidate from a connection tagged sender goes to the
\* receiver of the named room, one from a connection tagged receiver to its
\* sender, and one from an untagged connection goes to nobody: the originator
\* is told that the target is not connected.
C10_Original ==
  [][\A ws \in Conns, shareId \in ShareIds, payload \in Payloads :
       (Handles("ice-candidate", ws, shareId) /\ event'.payload = payload) =>
         LET msg == [type |-> "ice-candidate", shareId |-> shareId, payload |-> payload]
             receiver == Occupant(shareId, "receiver")
             sender == Occupant(shareId, "sender")
         IN /\ (wsRole[ws] = "sender" /\ receiver # NoConn) =>
                 out' = <<Call(receiver, msg, IsOpen(receiver))>>
            /\ (wsRole[ws] = "receiver" /\ sender # NoConn) =>
                 out' = <<Call(sender, msg, IsOpen(sender))>>
            /\ wsRole[ws] = "none" =>
                 /\ Len(out') = 1
                 /\ out'[1].to = ws
                 /\ out'[1].data.type = "error"]_vars

\* ------------------------------------------------------------- C11
\* The connections other than ws that hold a slot of the room of shareId.
OtherOccupants(ws, shareId) ==
  ({rooms[shareId].sender, rooms[shareId].receiver} \cap Conns) \ {ws}

\* C11 as stated: a cancel for a share id that has a room makes one safeSend
\* call, a share-cancelled, to each occupant of the room other than the caller,
\* none to the caller or to anybody else, and removes the room (the other rooms
\* and the tags are left); for a share id without a room it makes no call and
\* changes nothing.
C11_Original ==
  [][\A ws \in Conns, shareId \in ShareIds :
       Handles("cancel", ws, shareId) =>
         IF HasRoom(shareId)
         THEN /\ \A c \in OtherOccupants(ws, shareId) :
                   DataTo(out', c) = <<[type |-> "share-cancelled", shareId |-> shareId]>>
              /\ \A c \in Conns \ OtherOccupants(ws, shareId) : DataTo(out', c) = << >>
              /\ rooms' = [id \in (DOMAIN rooms) \ {shareId} |-> rooms[id]]
              /\ TagsUnchanged
         ELSE /\ out' = << >>
              /\ rooms' = rooms
              /\ TagsUnchanged]_vars

\* ------------------------------------------------------------- C12
\* C12 as stated: a create or a join from a connection that carries a tag
\* leaves its role and its share id as they were, and puts it in no slot that
\* it did not hold.
C12_Original ==
  [][\A ws \in Conns :
       (/\ event'.op \in {"create", "join"}
        /\ event'.conn = ws
        /\ wsRole[ws] # "none") =>
         /\ wsRole'[ws] = wsRole[ws]
         /\ wsShareId'[ws] = wsShareId[ws]
         /\ \A id \in DOMAIN rooms' :
              /\ rooms'[id].sender = ws => (HasRoom(id) /\ rooms[id].sender = ws)
              /\ rooms'[id].receiver = ws => (HasRoom(id) /\ rooms[id].receiver = ws)]_vars

\* ------------------------------------------------------------- C13
\* C13 as stated: an offer, an answer, an ice-candidate or a cancel from a
\* connection that carries no tag changes no room, and every safeSend call it
\* makes is to the originator.
C13_Original ==
  [][\A ws \in Conns :
       (/\ event'.op \in {"offer", "answer", "ice-candidate", "cancel"}
        /\ event'.conn = ws
        /\ wsRole[ws] = "none") =>
         /\ rooms' = rooms
         /\ \A i \in 1..Len(out') : out'[i].to = ws]_vars

\* ------------------------------------------------------------- C14
\* The step handles a message that is no signal: text JSON.parse rejects, a
\* value whose type is none of the six (or that has none, as the JSON text
\* null), or a create / join without share id.
Malformed ==
  \/ event'.op \in {"invalid-json", "unsupported", "null-message"}
  \/ event'.op \in {"create", "join"} /\ event'.shareId = EmptyId

\* C14 as stated: such a message makes exactly one safeSend call, an error to
\* the connection that sent it (transmitted when it is OPEN), changes no room,
\* no tag and no connection, and the connection's later messages are still
\* handled.
C14_Original ==
  [][\A ws \in Conns :
       (Malformed /\ event'.conn = ws) =>
         /\ Len(out') = 1
         /\ out'[1].to = ws
         /\ out'[1].data.type = "error"
         /\ out'[1].open = IsOpen(ws)
         /\ rooms' = rooms
         /\ TagsUnchanged
         /\ readyState' = readyState
         /\ ws \in inbound'
         /\ running']_vars

\* ------------------------------------------------------------- C22
\* ws is in the sender slot of room shareId, whose receiver slot holds another
\* connection
SenderOfRoomWithReceiver(ws, shareId) ==
  /\ HasRoom(shareId)
  /\ rooms[shareId].sender = ws
  /\ rooms[shareId].receiver \in Conns \ {ws}

\* C22 as stated: the sender of a room ends the share by a cancel or by the
\* close of its connection alone, with the same effect.  The cancel removes the
\* room and sends the receiver one share-cancelled; the disconnect sends the
\* receiver one peer-disconnected{role: sender} and closes the receiver's
\* connection, and once the close of that connection has been processed (no
\* sender having come to the room meanwhile) the room is absent.
C22_Original ==
  [][\A ws \in Conns, shareId \in ShareIds :
       /\ (Handles("cancel", ws, shareId) /\ SenderOfRoomWithReceiver(ws, shareId)) =>
            /\ DataTo(out', rooms[shareId].receiver) = <<Notice("share-cancelled", shareId)>>
            /\ shareId \notin DOMAIN rooms'
       /\ (FirstDisconnects(ws) /\ SenderOfRoomWithReceiver(ws, shareId)) =>
            /\ DataTo(out', rooms[shareId].receiver) = <<PeerDisconnected("sender", shareId)>>
            /\ readyState'[rooms[shareId].receiver] # "OPEN"
       /\ (/\ FirstDisconnects(ws)
           /\ readyState[ws] = "CLOSING"
           /\ HasRoom(shareId)
           /\ rooms[shareId] = [sender |-> NoConn, receiver |-> ws]) =>
            shareId \notin DOMAIN rooms']_vars

\* ------------------------------------------------------------- C29
\* C29: a create for a share id whose sender slot is free succeeds.  The
\* creating connection takes the sender slot and is tagged sender of the room,
\* the receiver slot stays as it was, and the coordinator calls safeSend for the
\* creating connection alone: created and then receiver-joined when the room
\* holds a receiver (the receiver a sender's disconnect has left in the room,
\* whose connection is being closed), created only when it holds none or there
\* was no room; each is transmitted when the creating connection is OPEN.
C29_CreateFindsReceiver ==
  [][\A ws \in Conns, shareId \in ShareIds :
       (/\ Handles("create", ws, shareId)
        /\ HasRoom(shareId) => rooms[shareId].sender = NoConn) =>
         LET receiver == IF HasRoom(shareId) THEN rooms[shareId].receiver ELSE NoConn
         IN /\ shareId \in DOMAIN rooms'
            /\ rooms'[shareId] = [sender |-> ws, receiver |-> receiver]
            /\ \A id \in ShareIds \ {shareId} :
                 /\ (id \in DOMAIN rooms') = HasRoom(id)
                 /\ HasRoom(id) => rooms'[id] = rooms[id]
            /\ wsRole' = [wsRole EXCEPT ![ws] = "sender"]
            /\ wsShareId' = [wsShareId EXCEPT ![ws] = shareId]
            /\ out' = IF receiver # NoConn
                      THEN << Call(ws, Notice("created", shareId), IsOpen(ws)),
                              Call(ws, Notice("receiver-joined", shareId), IsOpen(ws)) >>
                      ELSE << Call(ws, Notice("created", shareId), IsOpen(ws)) >>
            /\ readyState' = readyState]_vars

\* A sender has left its room to the receiver, whose connection the
\* coordinator is closing, and a third, open connection has created the share
\* again: it holds the sender slot and has been sent created and receiver-joined.
C29_Witness ==
  /\ event.op = "create"
  /\ HasRoom(event.shareId)
  /\ rooms[event.shareId].sender = event.conn
  /\ rooms[event.shareId].receiver \in Conns \ {event.conn}
  /\ readyState[rooms[event.shareId].receiver] = "CLOSING"
  /\ wsRole[event.conn] = "sender"
  /\ out = << Call(event.conn, Notice("created", event.shareId), TRUE),
              Call(event.conn, Notice("receiver-joined", event.shareId), TRUE) >>

\* ------------------------------------------------------------- C30
\* joinShare accepts a join for shareId: the room has a sender and no receiver
Joinable(rs, shareId) ==
  /\ shareId \in DOMAIN rs
  /\ rs[shareId].sender # NoConn
  /\ rs[shareId].receiver = NoConn

\* C30 as stated: once the disconnect of the connection in the receiver slot
\* of a room has been processed, the sender being another connection, the room
\* is there with its sender and a free receiver slot, so that a join for the
\* share id is accepted; and a join that is accepted puts the joining
\* connection in the receiver slot and makes a safeSend call of
\* receiver-joined to the sender.
C30_Original ==
  [][\A ws \in Conns, shareId \in ShareIds :
       /\ (/\ FirstDisconnects(ws)
           /\ HasRoom(shareId)
           /\ rooms[shareId].receiver = ws
           /\ rooms[shareId].sender \in Conns \ {ws}) =>
            /\ Joinable(rooms', shareId)
            /\ rooms'[shareId].sender = rooms[shareId].sender
       /\ (Handles("join", ws, shareId) /\ Joinable(rooms, shareId)) =>
            LET sender == rooms[shareId].sender
            IN /\ rooms'[shareId] = [sender |-> sender, receiver |-> ws]
               /\ \E i \in 1..Len(out') :
                    out'[i] = Call(sender, Notice("receiver-joined", shareId),
                                   IsOpen(sender))]_vars

\* ------------------------------------------------------------- C31
\* the connections that hold a slot of some room
Occupants ==
  {c \in Conns : \E id \in DOMAIN rooms : c \in {rooms[id].sender, rooms[id].receiver}}

\* C31 as stated: every connection that holds a slot of a room is one whose
\* disconnect (its close or error event) has not been processed yet, whatever
\* creates and joins it has issued; so with every connection disconnected the
\* registry is empty.
C31_Original ==
  /\ Occupants \subseteq inbound
  /\ inbound = {} => DOMAIN rooms = {}

\* ------------------------------------------------------------- C32
\* ws carries the tag of shareId from a room that is gone (a cancel removed
\* it), and the room that shareId names now was created by other connections:
\* ws holds neither of its slots
StaleTag(ws, shareId) ==
  /\ wsRole[ws] # "none"
  /\ wsShareId[ws] = shareId
  /\ HasRoom(shareId)
  /\ ws \notin {rooms[shareId].sender, rooms[shareId].receiver}

\* C32: the disconnect of a connection that still carries the tag of a share
\* id whose room was removed by a cancel and created anew by other
\* connections makes no safeSend call, closes no other connection and leaves
\* every room, the new one among them, as it is.
C32_StaleDisconnect ==
  [][\A ws \in Conns, shareId \in ShareIds :
       (Disconnects(ws) /\ StaleTag(ws, shareId)) =>
         /\ out' = << >>
         /\ rooms' = rooms
         /\ \A c \in Conns \ {ws} : readyState'[c] = readyState[c]
         /\ TagsUnchanged]_vars

\* The sender of a room that a cancel removed has disconnected after another
\* connection created the share id anew: the new room holds its sender, whose
\* connection is open, and nothing was sent.
C32_Witness ==
  /\ event.op \in {"close", "error"}
  /\ wsRole[event.conn] = "sender"
  /\ wsShareId[event.conn] \in ShareIds
  /\ HasRoom(wsShareId[event.conn])
  /\ rooms[wsShareId[event.conn]].sender \in inbound \ {event.conn}
  /\ readyState[rooms[wsShareId[event.conn]].sender] = "OPEN"
  /\ out = << >>

\* ============================================================= the sender's tab
\* One action is one task of the tab's event loop together with the microtasks
\* it leaves (the continuations of promises it settles).
\* rejectAck, resolveAck: finishReject / finishResolve settle the promise once
\* (ackPromise is "none", "pending", "resolved", "rejected", or "timedOut" when
\* it was the timer that rejected it)
Rejected(promise) == IF promise = "pending" THEN "rejected" ELSE promise
Resolved(promise) == IF promise = "pending" THEN "resolved" ELSE promise

\* cleanup(notifyCancel) of SenderView: the cancel to the coordinator when the
\* signaling socket is open, the channel and the socket closed, rejectAck
cleanup(s, notifyCancel) ==
  [s EXCEPT !.cancels = IF notifyCancel /\ s.socket = "open" THEN @ + 1 ELSE @,
            !.cleaned = TRUE,
            !.socket = "closed",
            !.ackPromise = Rejected(@)]

\* channel.readyState in the sender's tab after a task that leaves the session s
ChannelAfter(s) == IF s.cleaned THEN "closed" ELSE senderReady

\* the catch block of channel.onopen
Failed(s) ==
  cleanup([s EXCEPT !.status = "error", !.ackPromise = Rejected(@), !.pc = "done"], TRUE)

\* channel.onopen after await ackPromise
Succeeded(s) == [s EXCEPT !.status = "complete", !.closeTimer = TRUE, !.pc = "done"]

\* channel.onopen once sendFileOverChannel has returned
AwaitAck(s) ==
  LET t == [s EXCEPT !.status = "finalizing"]
  IN IF s.ackPromise = "resolved" THEN Succeeded(t)
     ELSE IF s.ackPromise \in {"rejected", "timedOut"} THEN Failed(t)
     ELSE [t EXCEPT !.pc = "ackWait"]

\* sendFileOverChannel after the last waitForDrain, on an open channel: the
\* complete frame, then waitForDataChannelBuffer finds it in the buffer and sleeps
SendComplete(s, frames) ==
  [s |-> [s EXCEPT !.pc = "flush"], frames |-> Append(frames, CompleteFrame)]

\* The mutant: no waitForDrain before the complete frame.
StreamingNoFinalDrain(s, frames) ==
  IF s.offset < Len(file)
  THEN [s |-> [s EXCEPT !.pc = "read"], frames |-> frames]
  ELSE SendComplete(s, frames)

\* sendFileOverChannel from the head of its while loop, on an open channel, up
\* to the next await that suspends: the read of the next slice, or, all bytes
\* sent, the last waitForDrain (which lets through at or below the low-water mark)
Streaming(s, frames) ==
  IF s.offset < Len(file)
  THEN [s |-> [s EXCEPT !.pc = "read"], frames |-> frames]
  ELSE IF BufferedAmount(frames, transmitted) <= DATA_CHANNEL_LOW_WATER
  THEN SendComplete(s, frames)
  ELSE [s |-> [s EXCEPT !.pc = "finalDrain"], frames |-> frames]

\* what a task of the sender's tab leaves alone
SenderTask ==
  /\ UNCHANGED <<file, transmitted, delivered, receiverReady, receiverView, receiverState,
                 rendered, interrupted>>
  /\ UNCHANGED coordVars

\* channel.onopen: createAckPromise arms the timer, sendFileOverChannel sends
\* the metadata frame and enters its loop
SenderChannelOpen ==
  /\ senderView.pc = "start"
  /\ senderReady = "connecting"
  /\ ~senderView.cleaned
  /\ senderReady' = "open"
  /\ LET s0 == [senderView EXCEPT !.status = "transferring", !.ackPromise = "pending"]
         next == Streaming(s0, Append(channel, MetadataFrame(file)))
     IN senderView' = next.s /\ channel' = next.frames
  /\ UNCHANGED <<acks, pressure>>
  /\ SenderTask

\* The mutant: the sender never suspends at the high-water mark.
SenderReadNoDrain ==
  /\ senderView.pc = "read"
  /\ IF senderReady # "open"
     THEN senderView' = Failed(senderView) /\ channel' = channel /\ pressure' = pressure
     ELSE LET data == Slice(file, senderView.offset)
              frames == Append(channel, ChunkFrame(data))
              s1 == [senderView EXCEPT !.offset = @ + Len(data)]
              amount == BufferedAmount(frames, transmitted)
              next == Streaming(s1, frames)
          IN /\ senderView' = next.s
             /\ channel' = next.frames
             /\ pressure' = IF amount > DATA_CHANNEL_HIGH_WATER THEN "high" ELSE pressure
  /\ senderReady' = ChannelAfter(senderView')
  /\ UNCHANGED acks
  /\ UNCHANGED <<file, transmitted, delivered, receiverReady, receiverView, receiverState,
                 rendered, interrupted>>
  /\ UNCHANGED coordVars

\* sendFileOverChannel after await slice.arrayBuffer(): the chunk is sent, and
\* the sender suspends when bufferedAmount is above the high-water mark
SenderRead ==
  /\ senderView.pc = "read"
  /\ IF senderReady # "open"
     THEN senderView' = Failed(senderView) /\ channel' = channel /\ pressure' = pressure
     ELSE LET data == Slice(file, senderView.offset)
              frames == Append(channel, ChunkFrame(data))
              s1 == [senderView EXCEPT !.offset = @ + Len(data)]
              amount == BufferedAmount(frames, transmitted)
              next == IF amount > DATA_CHANNEL_HIGH_WATER /\ amount > DATA_CHANNEL_LOW_WATER
                      THEN [s |-> [s1 EXCEPT !.pc = "flowWait"], frames |-> frames]
                      ELSE Streaming(s1, frames)
          IN /\ senderView' = next.s
             /\ channel' = next.frames
             /\ pressure' = IF amount > DATA_CHANNEL_HIGH_WATER THEN "high" ELSE pressure
  /\ senderReady' = ChannelAfter(senderView')
  /\ UNCHANGED acks
  /\ SenderTask

\* the bufferedamountlow event (bufferedAmountLowThreshold is the low-water
\* mark) reaches handleBuffered of waitForDrain
SenderBufferedAmountLow ==
  /\ senderView.pc \in {"flowWait", "finalDrain"}
  /\ senderReady = "open"
  /\ BufferedAmount(channel, transmitted) <= DATA_CHANNEL_LOW_WATER
  /\ LET next == IF senderView.pc = "flowWait" THEN Streaming(senderView, channel)
                 ELSE SendComplete(senderView, channel)
     IN senderView' = next.s /\ channel' = next.frames
  /\ UNCHANGED <<senderReady, acks, pressure>>
  /\ SenderTask

\* the close event of the channel in the sender's tab: channel.onclose, then
\* handleClose of a pending waitForDrain, whose continuation throws
SenderChannelClose ==
  /\ senderReady = "open"
  /\ ~senderView.cleaned
  /\ LET live == senderView.statusRef \notin {"complete", "error"}
         s1 == IF live THEN [senderView EXCEPT !.status = "error", !.ackPromise = Rejected(@)]
               ELSE senderView
     IN senderView' = IF senderView.pc \in {"flowWait", "finalDrain"} THEN Failed(s1)
                  ELSE IF senderView.pc = "ackWait" /\ s1.ackPromise = "rejected" THEN Failed(s1)
                  ELSE s1
  /\ senderReady' = "closed"
  /\ UNCHANGED <<channel, acks, pressure>>
  /\ SenderTask

\* a sleep(50) of waitForDataChannelBuffer ends and the loop ends with it (the
\* buffer is empty or the channel is not open): finalizing, await ackPromise
SenderFlushed ==
  /\ senderView.pc = "flush"
  /\ senderReady # "open" \/ BufferedAmount(channel, transmitted) = 0
  /\ senderView' = AwaitAck(senderView)
  /\ senderReady' = ChannelAfter(senderView')
  /\ UNCHANGED <<channel, acks, pressure>>
  /\ SenderTask

\* channel.onmessage with a complete-ack frame
SenderAckMessage ==
  /\ senderReady = "open"
  /\ ~senderView.cleaned
  /\ acks.seen < acks.flushed
  /\ acks' = [acks EXCEPT !.seen = @ + 1]
  /\ LET s1 == [senderView EXCEPT !.ackPromise = Resolved(@)]
     IN senderView' = IF senderView.pc = "ackWait" /\ s1.ackPromise = "resolved"
                  THEN Succeeded(s1) ELSE s1
  /\ UNCHANGED <<channel, senderReady, pressure>>
  /\ SenderTask

\* The mutant: the timer is cleared when the acknowledgment wait begins.
SenderAckTimeoutCleared ==
  /\ senderView.ackPromise = "pending"
  /\ senderView.pc # "ackWait"
  /\ senderView' = [senderView EXCEPT !.ackPromise = "timedOut"]
  /\ UNCHANGED <<channel, acks, pressure, senderReady>>
  /\ SenderTask

\* the timer of createAckPromise: finishReject with "Receiver did not confirm
\* receipt in time"
SenderAckTimeout ==
  /\ senderView.ackPromise = "pending"
  /\ LET s1 == [senderView EXCEPT !.ackPromise = "timedOut"]
     IN senderView' = IF senderView.pc = "ackWait" THEN Failed(s1) ELSE s1
  /\ senderReady' = ChannelAfter(senderView')
  /\ UNCHANGED <<channel, acks, pressure>>
  /\ SenderTask

\* the timer set after success: cleanup(false)
SenderCloseTimer ==
  /\ senderView.closeTimer
  /\ senderView' = [cleanup(senderView, FALSE) EXCEPT !.closeTimer = FALSE]
  /\ senderReady' = "closed"
  /\ UNCHANGED <<channel, acks, pressure>>
  /\ SenderTask

\* peer.onconnectionstatechange with connectionState "failed" or "disconnected"
\* (the latter may be followed by "connected" again): the status, nothing else
SenderConnectionStateChange ==
  /\ ~senderView.cleaned
  /\ senderView.statusRef # "complete"
  /\ senderView.status # "error"
  /\ senderView' = [senderView EXCEPT !.status = "error"]
  /\ UNCHANGED <<channel, senderReady, acks, pressure>>
  /\ SenderTask

\* React renders SenderView and runs its effects: statusRef.current = status
SenderRender ==
  /\ senderView.statusRef # senderView.status
  /\ senderView' = [senderView EXCEPT !.statusRef = senderView.status]
  /\ UNCHANGED <<channel, senderReady, acks, pressure>>
  /\ SenderTask

\* the transport takes the next frame out of the sender's buffer
Transmit ==
  /\ senderReady = "open"
  /\ transmitted < Len(channel)
  /\ transmitted' = transmitted + 1
  /\ pressure' = IF pressure = "high"
                    /\ BufferedAmount(channel, transmitted + 1) <= DATA_CHANNEL_LOW_WATER
                 THEN "relieved" ELSE pressure
  /\ UNCHANGED <<file, channel, delivered, senderReady, receiverReady, senderView, acks,
                 receiverView, receiverState, rendered, interrupted>>
  /\ UNCHANGED coordVars

\* cleanup(false) called from a handler of the signaling socket, and what its
\* rejectAck and its channel.close() wake: the await of the acknowledgment
\* throws, and so does sendFileOverChannel once handleClose has let a
\* suspended waitForDrain go on (the catch block finds the socket closed)
Closed(s) ==
  LET s1 == cleanup(s, FALSE)
  IN IF s.pc \in {"flowWait", "finalDrain", "ackWait"} THEN Failed(s1) ELSE s1

\* handleServerMessage of SenderView for the messages of the coordinator that
\* tell of the other side: peer-disconnected, share-cancelled, error
SenderServerMessage(type) ==
  /\ senderView.socket = "open"
  /\ senderView' =
       IF type = "peer-disconnected"
       THEN [senderView EXCEPT !.status = IF senderView.statusRef # "complete"
                                          THEN "waiting" ELSE @]
       ELSE Closed([senderView EXCEPT !.status = "error"])
  /\ senderReady' = ChannelAfter(senderView')
  /\ UNCHANGED <<channel, acks, pressure>>
  /\ SenderTask

\* socket.onclose of SenderView: the signaling connection is gone, and the
\* tab has not closed it
SenderSocketClose ==
  /\ senderView.socket = "open"
  /\ LET s0 == [senderView EXCEPT !.socket = "closed"]
     IN senderView' = IF senderView.statusRef # "complete"
                      THEN Closed([s0 EXCEPT !.status = "error"])
                      ELSE s0
  /\ senderReady' = ChannelAfter(senderView')
  /\ UNCHANGED <<channel, acks, pressure>>
  /\ SenderTask

\* ============================================================= the receiver's tab
\* ReceiverView keeps each value twice: as React state (set by setStatus,
\* setMetadata, setBytesReceived, setDownloadUrl) and as a ref that a useEffect
\* copies from the state after a render (statusRef, metadataRef,
\* bytesReceivedRef).  The handlers read the refs.  A setter called from a
\* channel or socket handler only schedules a render; the render runs in a
\* later task, and the effects of a render in a task after it.  So between two
\* handlers React may have rendered, have run the effects too, or neither.
\*   receiverState   the state as the setters leave it
\*   rendered        the state of the last render
\*   receiver.lanes  a render is scheduled
\*   receiver.effects   the refs whose effect has yet to run for the last render
\*   receiver.updater   what the queued updaters of setBytesReceived will leave
\*                      in bytesReceivedRef when the render runs them

\* a setter is called: a render is scheduled when the state changes
Scheduled(r, oldState, newState) ==
  [r EXCEPT !.lanes = @ \/ (newState # oldState)]

\* the effects of the last render that have yet to run, run
EffectsRun(r) ==
  [r EXCEPT !.statusRef = IF "status" \in r.effects THEN rendered.status ELSE @,
            !.metadataRef = IF "metadata" \in r.effects THEN rendered.metadata ELSE @,
            !.bytesReceivedRef =
               IF "bytesReceived" \in r.effects THEN rendered.bytesReceived ELSE @,
            !.effects = {}]

\* cleanupPeer of ReceiverView: handlers off, channel closed, dataChannelRef null
cleanupPeerOfReceiver(r) == [r EXCEPT !.cleaned = TRUE]

\* finalizeFile: nothing without metadataRef.current; else the Blob of the
\* chunks, which are dropped, and the session complete.
\* Called with the refs r and the state st, it yields both.
finalizeFile(r, st) ==
  IF r.metadataRef = NoMetadata
  THEN [r |-> r, st |-> st]
  ELSE LET st1 == [st EXCEPT !.downloadUrl = ObjectUrl(r.chunksRef),
                             !.bytesReceived = r.metadataRef,
                             !.status = "complete"]
       IN [r |-> Scheduled([r EXCEPT !.chunksRef = << >>,
                                     !.statusRef = "complete",
                                     !.bytesReceivedRef = r.metadataRef],
                           st, st1),
           st |-> st1]

\* sendCompletionAck and what follows its await, cleanupPeer: on an open
\* channel the ack is sent and waitForDataChannelBuffer sleeps until it has
\* left the buffer; without an open channel cleanupPeer comes at once.
\* It yields the refs and the number of acks sent.
sendCompletionAck(r, sent) ==
  IF r.cleaned \/ receiverReady # "open"
  THEN [r |-> cleanupPeerOfReceiver(r), sent |-> sent]
  ELSE [r |-> [r EXCEPT !.flushing = @ + 1], sent |-> sent + 1]

\* channel.readyState in the receiver's tab after a task that leaves the refs r
ReceiverChannelAfter(r) == IF r.cleaned THEN "closed" ELSE receiverReady

\* what a task of the receiver's tab leaves alone
ReceiverTask ==
  /\ UNCHANGED <<file, channel, transmitted, senderReady, senderView, pressure>>
  /\ UNCHANGED coordVars

\* React renders ReceiverView: the effects of the render before run first, the
\* queued updaters run, and the effects of the values that changed are due
ReceiverRender ==
  /\ receiverView.lanes
  /\ LET r1 == EffectsRun(receiverView)
         due == {x \in {"status", "metadata", "bytesReceived"} :
                   receiverState[x] # rendered[x]}
     IN receiverView' = [r1 EXCEPT !.bytesReceivedRef =
                                  IF r1.updater # NoUpdate THEN r1.updater ELSE @,
                               !.updater = NoUpdate,
                               !.lanes = FALSE,
                               !.effects = due]
  /\ rendered' = receiverState
  /\ UNCHANGED <<delivered, receiverReady, acks, receiverState, interrupted>>
  /\ ReceiverTask

\* React runs the effects of the last render: the refs take its values
ReceiverEffects ==
  /\ receiverView.effects # {}
  /\ receiverView' = EffectsRun(receiverView)
  /\ UNCHANGED <<delivered, receiverReady, acks, receiverState, rendered, interrupted>>
  /\ ReceiverTask

\* handleDataChannelMessage for a metadata frame
OnMetadata(frame) ==
  LET st1 == [receiverState EXCEPT !.bytesReceived = 0,
                                   !.metadata = frame.size,
                                   !.status = "receiving"]
  IN /\ receiverState' = st1
     /\ receiverView' = [receiverView EXCEPT !.chunksRef = << >>,
                                     !.bytesReceivedRef = 0,
                                     !.lanes = TRUE]
     /\ UNCHANGED acks

\* The mutant: the chunk is put in front of the chunks received so far.
OnChunkUnshift(frame) ==
  LET next == receiverState.bytesReceived + Len(frame.data)
  IN /\ receiverState' = [receiverState EXCEPT !.bytesReceived = next]
     /\ receiverView' = [receiverView EXCEPT
                           !.chunksRef = frame.data \o @,
                           !.bytesReceivedRef = IF receiverView.lanes THEN @ ELSE next,
                           !.updater = IF receiverView.lanes THEN next ELSE @,
                           !.lanes = @ \/ Len(frame.data) > 0]
     /\ UNCHANGED acks

\* handleDataChannelMessage for a binary frame: the updater of
\* setBytesReceived runs at once when no render is scheduled, else in the render
OnChunk(frame) ==
  LET next == receiverState.bytesReceived + Len(frame.data)
  IN /\ receiverState' = [receiverState EXCEPT !.bytesReceived = next]
     /\ receiverView' = [receiverView EXCEPT !.chunksRef = @ \o frame.data,
                                     !.bytesReceivedRef = IF receiverView.lanes THEN @ ELSE next,
                                     !.updater = IF receiverView.lanes THEN next ELSE @,
                                     !.lanes = @ \/ Len(frame.data) > 0]
     /\ UNCHANGED acks

\* handleDataChannelMessage for a complete frame
OnComplete ==
  LET done == finalizeFile(receiverView, receiverState)
      acked == sendCompletionAck(done.r, acks.sent)
  IN /\ receiverState' = done.st
     /\ receiverView' = acked.r
     /\ acks' = [acks EXCEPT !.sent = acked.sent]

\* channel.onmessage in the receiver's tab: the next frame of the channel
Deliver ==
  /\ receiverReady = "open"
  /\ ~receiverView.cleaned
  /\ delivered < transmitted
  /\ delivered' = delivered + 1
  /\ LET frame == channel[delivered + 1]
     IN IF frame.type = "metadata" THEN OnMetadata(frame)
        ELSE IF frame.type = "chunk" THEN OnChunk(frame)
        ELSE OnComplete
  /\ receiverReady' = ReceiverChannelAfter(receiverView')
  /\ UNCHANGED <<rendered, interrupted>>
  /\ ReceiverTask

\* channel.onopen in the receiver's tab
ReceiverChannelOpen ==
  /\ receiverReady = "connecting"
  /\ ~receiverView.cleaned
  /\ receiverReady' = "open"
  /\ LET st1 == [receiverState EXCEPT !.status = IF @ = "establishing" THEN "receiving" ELSE @]
     IN /\ receiverState' = st1
        /\ receiverView' = Scheduled(receiverView, receiverState, st1)
  /\ UNCHANGED <<delivered, acks, rendered, interrupted>>
  /\ ReceiverTask

\* The mutant: the close finalizes whenever metadata is there, whatever the count.
ReceiverChannelCloseNoCount ==
  /\ receiverReady = "open"
  /\ ~receiverView.cleaned
  /\ receiverReady' = "closed"
  /\ interrupted' = TRUE
  /\ IF receiverView.statusRef \in {"complete", "error"}
     THEN UNCHANGED <<receiverView, receiverState>>
     ELSE IF receiverView.metadataRef # NoMetadata
     THEN LET done == finalizeFile(receiverView, receiverState)
          IN receiverState' = done.st /\ receiverView' = cleanupPeerOfReceiver(done.r)
     ELSE LET st1 == [receiverState EXCEPT !.status = "error"]
          IN receiverState' = st1 /\ receiverView' = Scheduled(receiverView, receiverState, st1)
  /\ UNCHANGED <<delivered, acks, rendered>>
  /\ ReceiverTask

\* channel.onclose in the receiver's tab (the transport is gone, or the sender
\* has closed the channel)
ReceiverChannelClose ==
  /\ receiverReady = "open"
  /\ ~receiverView.cleaned
  /\ receiverReady' = "closed"
  /\ interrupted' = TRUE
  /\ IF receiverView.statusRef \in {"complete", "error"}
     THEN UNCHANGED <<receiverView, receiverState>>
     ELSE IF receiverView.metadataRef # NoMetadata
             /\ receiverView.bytesReceivedRef >= receiverView.metadataRef
     THEN LET done == finalizeFile(receiverView, receiverState)
          IN receiverState' = done.st /\ receiverView' = cleanupPeerOfReceiver(done.r)
     ELSE LET st1 == [receiverState EXCEPT !.status = "error"]
          IN receiverState' = st1 /\ receiverView' = Scheduled(receiverView, receiverState, st1)
  /\ UNCHANGED <<delivered, acks, rendered>>
  /\ ReceiverTask

\* handleServerMessage of ReceiverView for peer-disconnected{role: sender}
ReceiverPeerDisconnected ==
  /\ receiverView.socket = "open"
  /\ ~receiverView.notified
  /\ interrupted' = TRUE
  /\ LET r0 == [receiverView EXCEPT !.notified = TRUE]
     IN IF r0.statusRef = "complete"
        THEN LET st1 == [receiverState EXCEPT !.status = "complete"]
             IN /\ receiverState' = st1
                /\ receiverView' = Scheduled(r0, receiverState, st1)
                /\ UNCHANGED acks
        ELSE IF r0.metadataRef # NoMetadata /\ r0.bytesReceivedRef >= r0.metadataRef
        THEN LET done == finalizeFile(r0, receiverState)
                 acked == sendCompletionAck(done.r, acks.sent)
             IN /\ receiverState' = done.st
                /\ receiverView' = acked.r
                /\ acks' = [acks EXCEPT !.sent = acked.sent]
        ELSE LET st1 == [receiverState EXCEPT !.status = "error"]
             IN /\ receiverState' = st1
                /\ receiverView' = cleanupPeerOfReceiver(Scheduled(r0, receiverState, st1))
                /\ UNCHANGED acks
  /\ receiverReady' = ReceiverChannelAfter(receiverView')
  /\ UNCHANGED <<delivered, rendered>>
  /\ ReceiverTask

\* socket.onclose of ReceiverView: the signaling connection is gone (the
\* coordinator closes it after a peer-disconnected{role: sender})
ReceiverSocketClose ==
  /\ receiverView.socket = "open"
  /\ interrupted' = TRUE
  /\ LET r0 == [receiverView EXCEPT !.socket = "closed"]
     IN IF r0.statusRef # "complete"
        THEN LET st1 == [receiverState EXCEPT !.status = "error"]
             IN /\ receiverState' = st1
                /\ receiverView' = cleanupPeerOfReceiver(Scheduled(r0, receiverState, st1))
        ELSE receiverState' = receiverState /\ receiverView' = r0
  /\ receiverReady' = ReceiverChannelAfter(receiverView')
  /\ UNCHANGED <<delivered, acks, rendered>>
  /\ ReceiverTask

\* the transport takes the complete-ack out of the receiver's buffer
AckTransmit ==
  /\ receiverReady = "open"
  /\ acks.flushed < acks.sent
  /\ acks' = [acks EXCEPT !.flushed = @ + 1]
  /\ UNCHANGED <<delivered, receiverReady, receiverView, receiverState, rendered, interrupted>>
  /\ ReceiverTask

\* a sleep(50) of sendCompletionAck's waitForDataChannelBuffer ends and the
\* loop with it (the buffer is empty or the channel is not open): cleanupPeer
ReceiverAckFlushed ==
  /\ receiverView.flushing > 0
  /\ receiverReady # "open" \/ acks.flushed = acks.sent
  /\ receiverView' = cleanupPeerOfReceiver([receiverView EXCEPT !.flushing = @ - 1])
  /\ receiverReady' = "closed"
  /\ UNCHANGED <<delivered, acks, receiverState, rendered, interrupted>>
  /\ ReceiverTask

\* handleServerMessage of ReceiverView for share-cancelled and for the error
\* message of the coordinator: the session fails, cleanupPeer
ReceiverServerMessage(type) ==
  /\ type \in {"share-cancelled", "error"}
  /\ receiverView.socket = "open"
  /\ interrupted' = TRUE
  /\ LET st1 == [receiverState EXCEPT !.status = "error"]
     IN /\ receiverState' = st1
        /\ receiverView' = cleanupPeerOfReceiver(Scheduled(receiverView, receiverState, st1))
  /\ receiverReady' = ReceiverChannelAfter(receiverView')
  /\ UNCHANGED <<delivered, acks, rendered>>
  /\ ReceiverTask

\* socket.onerror of ReceiverView (the close event of the socket follows)
ReceiverSocketError ==
  /\ receiverView.socket = "open"
  /\ interrupted' = TRUE
  /\ LET st1 == [receiverState EXCEPT !.status = IF receiverView.statusRef # "error"
                                                 THEN "error" ELSE @]
     IN /\ receiverState' = st1
        /\ receiverView' = Scheduled(receiverView, receiverState, st1)
  /\ UNCHANGED <<delivered, receiverReady, acks, rendered>>
  /\ ReceiverTask

\* ============================================================= claims on the transfer
\* the artifact behind downloadUrl (the bytes of the Blob), when there is one
Exposed == receiverState.downloadUrl # NoUrl
Artifact == receiverState.downloadUrl[1]
\* the size the metadata frame on the channel declares
DeclaredSize == channel[1].size

\* ------------------------------------------------------------- C15
\* C15: after an uninterrupted transfer (the receiver has been shown no close
\* of the channel, no peer-disconnected and no close of its signaling socket)
\* over the reliable ordered channel, the artifact the receiver exposes is the
\* source byte for byte, and its length is the size the metadata frame
\* declared, which is the size the receiver recorded.
C15_ArtifactIdentical ==
  (Exposed /\ ~interrupted) =>
     /\ Artifact = file
     /\ Len(Artifact) = DeclaredSize
     /\ receiverState.metadata = DeclaredSize

\* an uninterrupted transfer of a file of several chunks, the last one short,
\* has exposed its artifact
C15_Witness ==
  /\ Exposed
  /\ ~interrupted
  /\ Len(file) > DATA_CHANNEL_CHUNK_SIZE
  /\ Len(file) % DATA_CHANNEL_CHUNK_SIZE # 0
  /\ Artifact = file

\* ------------------------------------------------------------- C16
\* the number of binary frames of a file of size S with chunks of size C
CeilDiv(S, C) == (S + C - 1) \div C
\* the k-th binary frame of an uninterrupted session: bytes (k-1)C .. min(kC, S) - 1
ExpectedChunk(k) ==
  LET from == (k - 1) * DATA_CHANNEL_CHUNK_SIZE
      to == IF k * DATA_CHANNEL_CHUNK_SIZE < Len(file)
            THEN k * DATA_CHANNEL_CHUNK_SIZE ELSE Len(file)
  IN [type |-> "chunk", size |-> to - from, data |-> [i \in 1..(to - from) |-> file[from + i]]]
\* one metadata frame, ceil(S/C) binary frames, one complete frame
ExpectedFrames ==
  LET n == CeilDiv(Len(file), DATA_CHANNEL_CHUNK_SIZE)
  IN [k \in 1..(n + 2) |->
        IF k = 1 THEN [type |-> "metadata", size |-> Len(file), data |-> << >>]
        ELSE IF k = n + 2 THEN [type |-> "complete", size |-> 0, data |-> << >>]
        ELSE ExpectedChunk(k - 1)]
\* sendFileOverChannel has sent its complete frame
CompleteSent == \E k \in 1..Len(channel) : channel[k].type = "complete"

\* C16: for every file size S >= 0, what the sender has passed to the channel
\* is at every moment a prefix of: one metadata frame, then ceil(S/C) binary
\* frames of at most C bytes that cover [0, S) contiguously in increasing
\* offset order, then one complete frame; a session that is not cut short
\* (it reaches the wait for the flush of the complete frame, the
\* acknowledgment wait or success) has emitted exactly that sequence, and
\* nothing is emitted after the complete frame.
C16_FrameSequence ==
  /\ Len(channel) <= Len(ExpectedFrames)
  /\ \A k \in 1..Len(channel) : channel[k] = ExpectedFrames[k]
  /\ \A k \in 1..Len(channel) :
       channel[k].type = "chunk" => Len(channel[k].data) <= DATA_CHANNEL_CHUNK_SIZE
  /\ (senderView.pc \in {"flush", "ackWait"} \/ senderView.status \in {"finalizing", "complete"}) =>
       channel = ExpectedFrames
  /\ CompleteSent => channel = ExpectedFrames

\* a session for a file of three chunks, the last one short, has sent its
\* complete frame and waits for the acknowledgment
C16_Witness ==
  /\ senderView.pc = "ackWait"
  /\ Len(file) > 2 * DATA_CHANNEL_CHUNK_SIZE
  /\ Len(file) % DATA_CHANNEL_CHUNK_SIZE # 0
  /\ channel = ExpectedFrames

\* ------------------------------------------------------------- C17
\* the bytes of the binary frames among the first n frames of the channel
RECURSIVE ChunkBytes(_)
ChunkBytes(n) ==
  IF n = 0 THEN 0
  ELSE ChunkBytes(n - 1) + (IF channel[n].type = "chunk" THEN Len(channel[n].data) ELSE 0)
\* the binary frames this step passes to channel.send (their places in the channel)
ChunksSent ==
  {k \in (Len(channel) + 1)..Len(channel') : channel'[k].type = "chunk"}

\* C17: when bufferedAmount is above the high-water mark right after a chunk
\* send, no further chunk is sent (the channel being open, as every send
\* requires) until bufferedAmount has been at or below the low-water mark; and
\* every chunk, the one after a suspension included, starts at the offset where
\* the chunk before it ended and is not empty, so that no byte range is skipped
\* or sent twice.
C17_Backpressure ==
  [][\A k \in ChunksSent :
       LET data == channel'[k].data
       IN /\ k = Len(channel) + 1
          /\ pressure # "high"
          /\ senderReady = "open"
          /\ Len(data) > 0
          /\ \A i \in 1..Len(data) : data[i] = file[ChunkBytes(Len(channel)) + i]
          /\ senderView'.offset = ChunkBytes(Len(channel)) + Len(data)]_vars

\* the sender was suspended above the high-water mark, bufferedAmount has come
\* down to the low-water mark, and the chunk after the suspension has been sent
C17_Witness ==
  /\ pressure = "relieved"
  /\ Len(channel) >= 4
  /\ channel[4].type = "chunk"
  /\ transmitted >= 3

\* ------------------------------------------------------------- C18
\* C18 as stated: whenever the sender's session is in success it has received
\* a complete-ack on the channel, and every complete-ack is sent by a receiver
\* that has received all bytes of the declared size and has assembled its
\* artifact from them.
C18_Original ==
  [][/\ senderView'.status = "complete" => acks'.seen >= 1
     /\ acks'.sent > acks.sent =>
          /\ Exposed'
          /\ Len(Artifact') = DeclaredSize
          /\ Artifact' = file]_vars

\* ------------------------------------------------------------- C19
\* C19: the acknowledgment wait ends.  When the timer of the acknowledgment
\* expires during the wait the session ends in failure at once, whatever the
\* state of the channel; and, the timer being a timer of the tab that fires
\* once its time has come, a sender in the acknowledgment wait always leaves
\* it, in failure unless a complete-ack has reached it.
C19_AckWaitEnds ==
  /\ [][(senderView.pc = "ackWait" /\ senderView'.ackPromise = "timedOut") =>
          /\ senderView'.pc = "done"
          /\ senderView'.status = "error"]_vars
  /\ (senderView.pc = "ackWait") ~>
        (senderView.pc = "done" /\ (acks.seen = 0 => senderView.status = "error"))

\* no complete-ack was ever sent, the receiver has been shown no close and its
\* end of the channel is open, and the sender, its complete frame flushed, has
\* ended in failure on the timer
C19_Witness ==
  /\ senderView.pc = "done"
  /\ senderView.status = "error"
  /\ senderView.ackPromise = "timedOut"
  /\ CompleteSent
  /\ transmitted = Len(channel)
  /\ acks.sent = 0
  /\ ~interrupted
  /\ receiverReady = "open"

\* ------------------------------------------------------------- C20
\* the receiver's onmessage has been called for the complete frame
CompleteObserved == \E k \in 1..delivered : channel[k].type = "complete"

\* C20 as stated: when the receiver has recorded the metadata and has counted
\* as many bytes as it declares, its session being neither in success nor in
\* failure and no complete frame observed, a close of the channel or a
\* peer-disconnected{role: sender} ends the session in success with the
\* artifact, all the bytes of the file, exposed.
C20_Original ==
  [][((ReceiverChannelClose \/ ReceiverPeerDisconnected)
        /\ receiverState.metadata # NoMetadata
        /\ receiverState.bytesReceived >= receiverState.metadata
        /\ receiverState.status \notin {"complete", "error"}
        /\ ~CompleteObserved) =>
       /\ receiverState'.status = "complete"
       /\ Exposed'
       /\ Artifact' = file]_vars

\* ------------------------------------------------------------- C21
\* the receiver has counted fewer bytes than the metadata declares, or has
\* received no metadata
Incomplete ==
  \/ receiverState.metadata = NoMetadata
  \/ receiverState.bytesReceived < receiverState.metadata

\* C21: when the channel closes, or the coordinator reports the sender
\* disconnected, while the receiver's counter is below the declared size (or
\* no metadata has been received) and no complete frame was seen, the receiver
\* ends in failure and exposes no artifact.
C21_IncompleteFails ==
  [][((ReceiverChannelClose \/ ReceiverPeerDisconnected)
        /\ Incomplete
        /\ ~CompleteObserved) =>
       /\ receiverState'.status = "error"
       /\ ~Exposed']_vars

\* the sender went away in the middle of the file: the receiver, its
\* signaling socket still open, is in failure with part of the bytes counted
C21_Witness ==
  /\ interrupted
  /\ receiverView.socket = "open"
  /\ receiverState.metadata # NoMetadata
  /\ receiverState.bytesReceived > 0
  /\ receiverState.bytesReceived < receiverState.metadata
  /\ receiverState.status = "error"
  /\ ~Exposed

\* ------------------------------------------------------------- C23
\* the sender's cleanup has run with its signaling socket open: the cancel for
\* the share id has been sent and the channel is closed
CancelledAndClosed ==
  /\ senderView.cleaned
  /\ senderView.cancels >= 1
  /\ senderReady = "closed"

\* C23 as stated: whenever the sender's session is in failure (the channel
\* closed mid-stream, the acknowledgment timed out, the peer connection
\* failed), the sender, once the continuations it has pending in its tab have
\* run, has sent the cancel for its share id over its open signaling socket
\* and has closed the channel.
C23_Original ==
  (senderView.status = "error") ~> (CancelledAndClosed \/ senderView.status # "error")

\* ------------------------------------------------------------- C24
\* this step passes the complete frame to channel.send, as the last of the
\* frames it sends
CompleteFrameSent ==
  /\ Len(channel') > Len(channel)
  /\ channel'[Len(channel')].type = "complete"
\* the frames sent before it
Before == SubSeq(channel', 1, Len(channel') - 1)
\* the bytes of the binary frames among them
RECURSIVE ChunkBytesBefore(_)
ChunkBytesBefore(n) ==
  IF n = 0 THEN 0
  ELSE ChunkBytesBefore(n - 1) + (IF Before[n].type = "chunk" THEN Len(Before[n].data) ELSE 0)

\* C24 as stated: the complete frame is sent only when every chunk has been
\* sent and bufferedAmount is zero.
C24_Original ==
  [][CompleteFrameSent =>
       /\ ChunkBytesBefore(Len(Before)) = Len(file)
       /\ BufferedAmount(Before, transmitted) = 0]_vars

\* C24 (amended): the complete frame is sent only on an open channel when
\* every chunk has been sent and bufferedAmount is at or below the low-water
\* mark (not necessarily zero); it is after sending it that the sender waits
\* for bufferedAmount to be zero, and it enters the acknowledgment wait only
\* with bufferedAmount at zero or the channel no longer open.
C24_CompleteAtLowWater ==
  [][/\ CompleteFrameSent =>
          /\ senderReady' = "open"
          /\ senderView'.offset = Len(file)
          /\ ChunkBytesBefore(Len(Before)) = Len(file)
          /\ BufferedAmount(Before, transmitted) <= DATA_CHANNEL_LOW_WATER
          /\ senderView'.pc = "flush"
     /\ (senderView.pc = "flush" /\ senderView'.pc # "flush") =>
          \/ BufferedAmount(channel, transmitted) = 0
          \/ senderReady # "open"]_vars

\* the complete frame has been sent behind a frame that the transport has not
\* taken yet, and the sender waits for the buffer to empty
C24_Witness ==
  /\ senderView.pc = "flush"
  /\ Len(file) > 0
  /\ CompleteSent
  /\ transmitted < Len(channel) - 1

\* ------------------------------------------------------------- C25
\* C25 as stated: the timeout bounds the wait for the complete-ack alone.  Its
\* time is measured from the sending of the complete frame, so the timer of
\* the acknowledgment does not expire (and reject the acknowledgment for good)
\* in a state where the complete frame has not been sent, however long the
\* metadata and the chunks take.
C25_Original ==
  [][(senderView'.ackPromise = "timedOut" /\ senderView.ackPromise # "timedOut") =>
       CompleteSent]_vars

\* ------------------------------------------------------------- C26
\* C26 as stated: the receiver sends a complete-ack only once it has finalized
\* the transfer: in the state that follows the sending of a complete-ack the
\* session is in success and the artifact is exposed.
C26_Original ==
  [][acks'.sent > acks.sent =>
       /\ receiverState'.status = "complete"
       /\ Exposed']_vars

\* ------------------------------------------------------------- C27
\* the sender is suspended in waitForDrain inside the loop, in the last
\* waitForDrain, or in await ackPromise
Suspended == senderView.pc \in {"flowWait", "finalDrain", "ackWait"}

\* C27 as stated: when the close event of the channel comes to a sender
\* suspended in the flow-control wait, in the final drain wait or in the
\* acknowledgment wait, the sender leaves the wait in that very task (the
\* timer of the acknowledgment has no part in it) and ends in failure, and no
\* frame is sent on a channel that is not open.
C27_Original ==
  [][/\ (SenderChannelClose /\ Suspended) =>
          /\ senderView'.pc = "done"
          /\ senderView'.status = "error"
          /\ channel' = channel
     /\ senderReady # "open" /\ senderView.pc # "start" => channel' = channel]_vars

\* ------------------------------------------------------------- C28
\* C28 as stated: the receiver finalizes once.  An artifact, once exposed, is
\* never replaced by another one (the complete frame and the close of the
\* channel or the peer-disconnected{role: sender} may both come, in either
\* order, and while the ack is being flushed); the artifact exposed after a
\* finalization is made of all the bytes received; and at most one complete-ack
\* is sent.
C28_Original ==
  /\ [][/\ Exposed => (Exposed' /\ Artifact' = Artifact)
        /\ (~Exposed /\ Exposed') => Len(Artifact') = receiverState.bytesReceived]_vars
  /\ [](acks.sent <= 1)

\* ------------------------------------------------------------- C33
\* C33 as stated: the outcome of the sender's session is final.  Once the
\* session is in success, no event puts it in failure or back in waiting; once
\* it is in failure, no event puts it in success or back in waiting.
C33_Original ==
  [][/\ senderView.status = "complete" => senderView'.status \notin {"error", "waiting"}
     /\ senderView.status = "error" => senderView'.status \notin {"complete", "waiting"}]_vars

\* ------------------------------------------------------------- C34
\* the receiver has finalized: its session is in success with the artifact exposed
Finalized == receiverState.status = "complete" /\ Exposed

\* C34 as stated: once the receiver has finalized, no event (share-cancelled,
\* the error message of the coordinator, peer-disconnected, the close of the
\* channel, the close or the error of the signaling socket) puts its session
\* in failure.
C34_Original ==
  [][Finalized => receiverState'.status # "error"]_vars

\* ------------------------------------------------------------- specification
\* the share ids a message can carry: a real one, or none
MsgIds == ShareIds \cup {EmptyId}

Next ==
  \/ \E ws \in Conns, shareId \in MsgIds : OnCreate(ws, shareId)
  \/ \E ws \in Conns, shareId \in MsgIds : OnJoin(ws, shareId)
  \/ \E ws \in Conns, shareId \in MsgIds, sdp \in Payloads : OnOffer(ws, shareId, sdp)
  \/ \E ws \in Conns, shareId \in MsgIds, sdp \in Payloads : OnAnswer(ws, shareId, sdp)
  \/ \E ws \in Conns, shareId \in MsgIds, c \in Payloads : OnIceCandidate(ws, shareId, c)
  \/ \E ws \in Conns, shareId \in MsgIds : OnCancel(ws, shareId)
  \/ \E ws \in Conns : OnInvalidJson(ws)
  \/ \E ws \in Conns : OnUnsupported(ws)
  \/ \E ws \in Conns : OnNullMessage(ws)
  \/ \E ws \in Conns : OnError(ws)
  \/ \E ws \in Conns : OnClose(ws)

Spec == Init /\ [][Next]_vars

\* ------------------------------------------------------------- the transfer
\* One transfer between the two tabs, for a file of any size up to MaxFileSize
\* (the coordinator has done its part: the channel is negotiated).
TransferInit ==
  /\ RegistryInit
  /\ \E size \in 0..MaxFileSize : Mounted(FileOfSize(size))

TransferNext ==
  \/ SenderChannelOpen
  \/ SenderRead
  \/ SenderBufferedAmountLow
  \/ SenderChannelClose
  \/ SenderFlushed
  \/ SenderAckMessage
  \/ SenderAckTimeout
  \/ SenderCloseTimer
  \/ SenderConnectionStateChange
  \/ SenderRender
  \/ Transmit
  \/ ReceiverChannelOpen
  \/ Deliver
  \/ ReceiverChannelClose
  \/ ReceiverPeerDisconnected
  \/ ReceiverSocketClose
  \/ ReceiverRender
  \/ ReceiverEffects
  \/ AckTransmit
  \/ ReceiverAckFlushed

TransferSpec == TransferInit /\ [][TransferNext]_vars

\* the same transfer for the files up to MaxFairFileSize
ShortTransferInit ==
  /\ RegistryInit
  /\ \E size \in 0..MaxFairFileSize : Mounted(FileOfSize(size))

\* The timer of createAckPromise is a setTimeout of the tab: once armed and not
\* cleared, it fires.
FairTransferSpec ==
  /\ ShortTransferInit
  /\ [][TransferNext]_vars
  /\ WF_vars(SenderAckTimeout)

\* Every continuation of the sender that waits for the tab alone runs: the
\* timer of the acknowledgment, the promise of slice.arrayBuffer(), the
\* sleep(50) of waitForDataChannelBuffer.  Nothing is assumed of the transport,
\* the channel's events or the receiver.
FairSenderSpec ==
  /\ ShortTransferInit
  /\ [][TransferNext]_vars
  /\ WF_vars(SenderAckTimeout)
  /\ WF_vars(SenderRead)
  /\ WF_vars(SenderFlushed)

\* The transfer of a short file with the events of the signaling sockets of
\* both tabs beside those of the channel.
OutcomeNext ==
  \/ TransferNext
  \/ \E type \in {"peer-disconnected", "share-cancelled", "error"} : SenderServerMessage(type)
  \/ SenderSocketClose
  \/ \E type \in {"share-cancelled", "error"} : ReceiverServerMessage(type)
  \/ ReceiverSocketError

OutcomeInit ==
  /\ RegistryInit
  /\ \E size \in 0..MaxOutcomeFileSize : Mounted(FileOfSize(size))

OutcomeSpec ==
  /\ OutcomeInit
  /\ [][OutcomeNext]_vars

=============================================================================
